---- MODULE Spec2Model ----
(***************************************************************************)
(* Model of hcidoc's InformationalRule (floss/hcidoc/src/groups/           *)
(* informational.rs): the engine that rebuilds devices, link sessions and  *)
(* profiles from a stream of HCI packets.                                  *)
(***************************************************************************)
EXTENDS Integers, Sequences, FiniteSets, TLC

(***************************************************************************)
(* Bounds of the model.                                                    *)
(***************************************************************************)
NumAddrs == 3
NumHandles == 2
MaxTs == 1
MaxPackets == 4
\* Advertising / inquiry payloads: the longest payload, the most responses of
\* one report, the most report packets and the most payload bytes of a stream.
MaxLen == 4
MaxResponses == 2
MaxGapPackets == 2
MaxBytes == 4
NumCids == 2
MaxL2capPackets == 3
MaxChannelPackets == 5
NameLen == 2
MaxReportPackets == 3
MaxScanPackets == 3
MaxScanGapPackets == 1
NumCbs == 2
MaxCalls == 3
NumUuids == 2
NumRemoteDevices == 2
MaxAdminCalls == 4
MaxUuidsLen == 2

Addrs == 1..NumAddrs
Handles == 1..NumHandles
Timestamps == 0..MaxTs

\* const INVALID_TS: NaiveDateTime = NaiveDateTime::MAX: later than every
\* timestamp a packet carries.
INVALID_TS == MaxTs + 1

Transports == {"BREDR", "LE"}

(***************************************************************************)
(* Maps (HashMap) are functions whose domain is the key set.               *)
(***************************************************************************)
EmptyMap == [k \in {} |-> 0]

MapInsert(m, key, val) == [k \in (DOMAIN m) \cup {key} |-> IF k = key THEN val ELSE m[k]]

MapRemove(m, key) == [k \in (DOMAIN m) \ {key} |-> m[k]]

Last(s) == s[Len(s)]

SetLast(s, v) == [s EXCEPT ![Len(s)] = v]

(***************************************************************************)
(* enum AddressType and AddressType::update                                *)
(***************************************************************************)
AddressTypes == {"None", "BREDR", "LE", "Dual"}

\* Mutant of update: the new type replaces the old one.
AddressType_update_overwrites(self, new_type) == new_type

AddressType_update(self, new_type) ==
    CASE self = "None" -> new_type
      [] self = "Dual" -> "Dual"
      [] self = "BREDR" -> IF new_type \in {"Dual", "LE"} THEN "Dual" ELSE "BREDR"
      [] self = "LE" -> IF new_type \in {"Dual", "BREDR"} THEN "Dual" ELSE "LE"

(***************************************************************************)
(* enum AclState and AclState::get_connection_initiator                    *)
(***************************************************************************)
AclStates == {"None", "Initiating", "Accepting", "Connected"}

\* Mutant of get_connection_initiator: the two primed states swapped.
AclState_get_connection_initiator_swapped(self) ==
    CASE self = "Initiating" -> "Peer"
      [] self = "Accepting" -> "Host"
      [] OTHER -> "Unknown"

\* Mutant of get_connection_initiator: Host is the default.
AclState_get_connection_initiator_default_host(self) ==
    CASE self = "Accepting" -> "Peer"
      [] OTHER -> "Host"

AclState_get_connection_initiator(self) ==
    CASE self = "Initiating" -> "Host"
      [] self = "Accepting" -> "Peer"
      [] OTHER -> "Unknown"

(***************************************************************************)
(* ProfileId, ProfileInformation                                           *)
(***************************************************************************)
\* ProfileId::OnePerConnection(profile_type)
OnePerConnection(profile_type) == <<"OnePerConnection", profile_type>>

\* The profile identities the modelled packets can create.
ProfileIds == {OnePerConnection("Hfp")}

ProfileInformation_new(profile_type, profile_id) ==
    [start_time |-> INVALID_TS,
     end_time |-> INVALID_TS,
     profile_type |-> profile_type,
     start_initiator |-> "Unknown",
     end_initiator |-> "Unknown",
     profile_id |-> profile_id]

Profile_report_start(self, initiator, ts) ==
    [self EXCEPT !.start_initiator = initiator, !.start_time = ts]

Profile_report_end(self, initiator, ts) ==
    [self EXCEPT !.end_initiator = initiator, !.end_time = ts]

(***************************************************************************)
(* AclInformation: one link session                                        *)
(***************************************************************************)
AclInformation_new(handle, transport) ==
    [start_time |-> INVALID_TS,
     end_time |-> INVALID_TS,
     handle |-> handle,
     transport |-> transport,
     start_initiator |-> "Unknown",
     end_initiator |-> "Unknown",
     active_profiles |-> EmptyMap,
     inactive_profiles |-> <<>>,
     host_cids |-> EmptyMap,
     peer_cids |-> EmptyMap]

Acl_report_start(self, initiator, ts) ==
    [self EXCEPT !.start_initiator = initiator, !.start_time = ts]

\* The keys of a profile map in the order the iteration order `ord` (a
\* sequence that enumerates ProfileIds) visits them.
RECURSIVE DrainOrder(_, _)
DrainOrder(keys, ord) ==
    IF ord = <<>> THEN <<>>
    ELSE IF Head(ord) \in keys THEN <<Head(ord)>> \o DrainOrder(keys, Tail(ord))
    ELSE DrainOrder(keys, Tail(ord))

\* Mutant of report_end: sets the end fields and leaves the active profiles.
Acl_report_end_keeps_profiles(self, initiator, ts, ord) ==
    [self EXCEPT !.end_initiator = initiator, !.end_time = ts]

\* AclInformation::report_end.  HashMap::drain visits the active profiles in
\* an unspecified order; `ord` is the order of this run.
Acl_report_end(self, initiator, ts, ord) ==
    LET order == DrainOrder(DOMAIN self.active_profiles, ord)
        ended == [i \in 1..Len(order) |->
                     Profile_report_end(self.active_profiles[order[i]], initiator, ts)]
    IN [self EXCEPT !.active_profiles = EmptyMap,
                    !.inactive_profiles = self.inactive_profiles \o ended,
                    !.end_initiator = initiator,
                    !.end_time = ts]

Acl_report_profile_start(self, profile_type, profile_id, initiator, ts) ==
    LET profile == Profile_report_start(ProfileInformation_new(profile_type, profile_id),
                                        initiator, ts)
    IN [self EXCEPT !.active_profiles = MapInsert(self.active_profiles, profile_id, profile),
                    !.inactive_profiles =
                        IF profile_id \in DOMAIN self.active_profiles
                        THEN Append(self.inactive_profiles, self.active_profiles[profile_id])
                        ELSE self.inactive_profiles]

Acl_report_profile_end(self, profile_type, profile_id, initiator, ts) ==
    LET profile == IF profile_id \in DOMAIN self.active_profiles
                   THEN self.active_profiles[profile_id]
                   ELSE ProfileInformation_new(profile_type, profile_id)
    IN [self EXCEPT !.active_profiles = MapRemove(self.active_profiles, profile_id),
                    !.inactive_profiles =
                        Append(self.inactive_profiles, Profile_report_end(profile, initiator, ts))]

(***************************************************************************)
(* DeviceInformation                                                       *)
(***************************************************************************)
DeviceInformation_new(address) ==
    [names |-> {},
     address |-> address,
     address_type |-> "None",
     acls |-> [t \in Transports |-> <<>>],
     acl_state |-> [t \in Transports |-> "None"]]

Device_is_connection_active(self, transport) ==
    IF transport = "Unknown" THEN FALSE
    ELSE /\ self.acls[transport] # <<>>
         /\ Last(self.acls[transport]).end_time = INVALID_TS

\* DeviceInformation::get_or_allocate_connection: the device after the call;
\* the session the call returns is the last one of acls[transport].
Device_get_or_allocate_connection(self, handle, transport) ==
    IF ~Device_is_connection_active(self, transport)
    THEN [self EXCEPT !.acls[transport] = Append(@, AclInformation_new(handle, transport))]
    ELSE self

\* Mutant of report_connection_start: restarts the last session of the list
\* instead of pushing a new one.
Device_report_connection_start_reuses_last(self, handle, transport, ts) ==
    IF transport = "Unknown" THEN self
    ELSE LET initiator == AclState_get_connection_initiator(self.acl_state[transport])
         IN [self EXCEPT !.acls[transport] =
                             IF @ = <<>>
                             THEN <<Acl_report_start(AclInformation_new(handle, transport),
                                                     initiator, ts)>>
                             ELSE SetLast(@, Acl_report_start([Last(@) EXCEPT !.handle = handle],
                                                              initiator, ts)),
                         !.acl_state[transport] = "Connected"]

\* Mutant of report_connection_start: leaves the provisional state in place.
Device_report_connection_start_keeps_state(self, handle, transport, ts) ==
    IF transport = "Unknown" THEN self
    ELSE LET initiator == AclState_get_connection_initiator(self.acl_state[transport])
             acl == Acl_report_start(AclInformation_new(handle, transport), initiator, ts)
         IN [self EXCEPT !.acls[transport] = Append(@, acl)]

Device_report_connection_start(self, handle, transport, ts) ==
    IF transport = "Unknown" THEN self
    ELSE LET initiator == AclState_get_connection_initiator(self.acl_state[transport])
             acl == Acl_report_start(AclInformation_new(handle, transport), initiator, ts)
         IN [self EXCEPT !.acls[transport] = Append(@, acl),
                         !.acl_state[transport] = "Connected"]

\* One transport of the loop of DeviceInformation::report_connection_end:
\* TRUE iff the loop ends the session of this transport and returns.
Device_end_matches(self, handle, transport) ==
    /\ Device_is_connection_active(self, transport)
    /\ Last(self.acls[transport]).handle = handle

Device_end_transport(self, transport, initiator, ts, ord) ==
    [self EXCEPT !.acls[transport] = SetLast(@, Acl_report_end(Last(@), initiator, ts, ord)),
                 !.acl_state[transport] = "None"]

Device_report_connection_end(self, handle, initiator, ts, ord) ==
    IF Device_end_matches(self, handle, "BREDR")
    THEN Device_end_transport(self, "BREDR", initiator, ts, ord)
    ELSE IF Device_end_matches(self, handle, "LE")
    THEN Device_end_transport(self, "LE", initiator, ts, ord)
    ELSE self

(***************************************************************************)
(* InformationalRule.  The engine's fields are the variables below; the    *)
(* operators take and return them as one record `r`.                       *)
(***************************************************************************)
InformationalRule_new ==
    [devices |-> EmptyMap,
     handles |-> EmptyMap,
     sco_handles |-> EmptyMap,
     unknown_connections |-> EmptyMap,
     pending_disconnections |-> EmptyMap]

Rule_get_or_allocate_device(r, address) ==
    IF address \notin DOMAIN r.devices
    THEN [r EXCEPT !.devices = MapInsert(@, address, DeviceInformation_new(address))]
    ELSE r

Rule_get_or_allocate_unknown_connection(r, handle, transport) ==
    IF handle \notin DOMAIN r.unknown_connections
    THEN [r EXCEPT !.unknown_connections =
                       MapInsert(@, handle, AclInformation_new(handle, transport))]
    ELSE r

\* InformationalRule::get_or_allocate_connection returns a mutable reference
\* into the rule: the rule after the allocation, the session the reference
\* points at, and a write through the reference.
Rule_get_or_allocate_connection(r, handle, transport) ==
    IF handle \notin DOMAIN r.handles \/ transport = "Unknown"
    THEN Rule_get_or_allocate_unknown_connection(r, handle, transport)
    ELSE LET address == r.handles[handle]
             r1 == Rule_get_or_allocate_device(r, address)
         IN [r1 EXCEPT !.devices[address] =
                           Device_get_or_allocate_connection(@, handle, transport)]

Rule_connection(r, handle, transport) ==
    IF handle \notin DOMAIN r.handles \/ transport = "Unknown"
    THEN r.unknown_connections[handle]
    ELSE Last(r.devices[r.handles[handle]].acls[transport])

Rule_connection_write(r, handle, transport, conn) ==
    IF handle \notin DOMAIN r.handles \/ transport = "Unknown"
    THEN [r EXCEPT !.unknown_connections[handle] = conn]
    ELSE [r EXCEPT !.devices[r.handles[handle]].acls[transport] = SetLast(@, conn)]

Rule_report_address_type(r, address, address_type) ==
    LET r1 == Rule_get_or_allocate_device(r, address)
    IN [r1 EXCEPT !.devices[address].address_type = AddressType_update(@, address_type)]

Rule_report_acl_state(r, address, transport, state) ==
    LET r1 == Rule_get_or_allocate_device(r, address)
    IN [r1 EXCEPT !.devices[address].acl_state[transport] = state]

\* Mutant of report_connection_start: the pending-teardown entry stays.
Rule_report_connection_start_keeps_pending(r, address, handle, transport, ts) ==
    LET r1 == Rule_get_or_allocate_device(r, address)
    IN [r1 EXCEPT !.devices[address] = Device_report_connection_start(@, handle, transport, ts),
                  !.handles = MapInsert(@, handle, address)]

\* Mutant of report_connection_start: a session filed under the handle in
\* the unknown-session bucket is taken out of the bucket.
Rule_report_connection_start_claims_unknown(r, address, handle, transport, ts) ==
    LET r1 == Rule_get_or_allocate_device(r, address)
    IN [r1 EXCEPT !.devices[address] = Device_report_connection_start(@, handle, transport, ts),
                  !.handles = MapInsert(@, handle, address),
                  !.pending_disconnections = MapRemove(@, handle),
                  !.unknown_connections = MapRemove(@, handle)]

\* Mutant of report_connection_start: the handle is mapped to the address
\* and no device is recorded for the address.
Rule_report_connection_start_maps_only(r, address, handle, transport, ts) ==
    [r EXCEPT !.handles = MapInsert(@, handle, address),
              !.pending_disconnections = MapRemove(@, handle)]

Rule_report_connection_start(r, address, handle, transport, ts) ==
    LET r1 == Rule_get_or_allocate_device(r, address)
    IN [r1 EXCEPT !.devices[address] = Device_report_connection_start(@, handle, transport, ts),
                  !.handles = MapInsert(@, handle, address),
                  !.pending_disconnections = MapRemove(@, handle)]

\* Mutant of report_sco_connection_start: the synchronous handle is mapped
\* to itself instead of the handle of the owning session.
Rule_report_sco_connection_start_maps_self(r, address, handle, ts) ==
    IF address \notin DOMAIN r.devices THEN r
    ELSE IF ~Device_is_connection_active(r.devices[address], "BREDR") THEN r
    ELSE LET device == Device_get_or_allocate_connection(r.devices[address], 0, "BREDR")
             acl == Last(device.acls["BREDR"])
             started == Acl_report_profile_start(acl, "Hfp", OnePerConnection("Hfp"),
                                                 "Host", ts)
         IN [r EXCEPT !.devices[address] =
                          [device EXCEPT !.acls["BREDR"] = SetLast(@, started)],
                      !.sco_handles = MapInsert(@, handle, handle)]

Rule_report_sco_connection_start(r, address, handle, ts) ==
    IF address \notin DOMAIN r.devices THEN r
    ELSE IF ~Device_is_connection_active(r.devices[address], "BREDR") THEN r
    ELSE LET device == Device_get_or_allocate_connection(r.devices[address], 0, "BREDR")
             acl == Last(device.acls["BREDR"])
             acl_handle == acl.handle
             started == Acl_report_profile_start(acl, "Hfp", OnePerConnection("Hfp"),
                                                 "Host", ts)
         IN [r EXCEPT !.devices[address] =
                          [device EXCEPT !.acls["BREDR"] = SetLast(@, started)],
                      !.sco_handles = MapInsert(@, handle, acl_handle)]

\* Mutant of the initiator of report_connection_end: the flag of the entry
\* (is powering off?) instead of its presence.
EndInitiator_reads_flag(r, handle) ==
    IF handle \in DOMAIN r.pending_disconnections /\ r.pending_disconnections[handle]
    THEN "Host" ELSE "Peer"

\* The initiator InformationalRule::report_connection_end attributes.
EndInitiator(r, handle) ==
    IF handle \in DOMAIN r.pending_disconnections THEN "Host" ELSE "Peer"

\* Mutant of InformationalRule::report_connection_end: the handle stays in
\* the handle map.
Rule_report_connection_end_keeps_handle(r, handle, ts, ord) ==
    LET initiator == EndInitiator(r, handle)
        EndAcl(conn) == Acl_report_end(conn, initiator, ts, ord)
    IN IF handle \in DOMAIN r.sco_handles
       THEN LET acl_handle == r.sco_handles[handle]
                r1 == Rule_get_or_allocate_connection(r, acl_handle, "BREDR")
                conn == Rule_connection(r1, acl_handle, "BREDR")
            IN Rule_connection_write(r1, acl_handle, "BREDR",
                   Acl_report_profile_end(conn, "Hfp", OnePerConnection("Hfp"),
                                          initiator, ts))
       ELSE IF handle \in DOMAIN r.handles
       THEN LET address == r.handles[handle]
            IN [r EXCEPT !.devices[address] =
                             Device_report_connection_end(@, handle, initiator, ts, ord),
                         !.sco_handles =
                             [k \in {s \in DOMAIN r.sco_handles : r.sco_handles[s] # handle}
                                 |-> r.sco_handles[k]]]
       ELSE LET r1 == Rule_get_or_allocate_unknown_connection(r, handle, "Unknown")
            IN [r1 EXCEPT !.unknown_connections[handle] = EndAcl(@)]

Rule_report_connection_end(r, handle, ts, ord) ==
    LET initiator == EndInitiator(r, handle)
        EndAcl(conn) == Acl_report_end(conn, initiator, ts, ord)
    IN IF handle \in DOMAIN r.sco_handles
       THEN LET acl_handle == r.sco_handles[handle]
                r1 == Rule_get_or_allocate_connection(r, acl_handle, "BREDR")
                conn == Rule_connection(r1, acl_handle, "BREDR")
            IN Rule_connection_write(r1, acl_handle, "BREDR",
                   Acl_report_profile_end(conn, "Hfp", OnePerConnection("Hfp"),
                                          initiator, ts))
       ELSE IF handle \in DOMAIN r.handles
       THEN LET address == r.handles[handle]
            IN [r EXCEPT !.devices[address] =
                             Device_report_connection_end(@, handle, initiator, ts, ord),
                         !.handles = MapRemove(@, handle),
                         !.sco_handles =
                             [k \in {s \in DOMAIN r.sco_handles : r.sco_handles[s] # handle}
                                 |-> r.sco_handles[k]]]
       ELSE LET r1 == Rule_get_or_allocate_unknown_connection(r, handle, "Unknown")
            IN [r1 EXCEPT !.unknown_connections[handle] = EndAcl(@)]

\* The loop of InformationalRule::report_reset over the keys stored first.
RECURSIVE ResetLoop(_, _, _, _)
ResetLoop(r, handles_, ts, ord) ==
    IF handles_ = <<>> THEN r
    ELSE ResetLoop(Rule_report_connection_end(r, Head(handles_), ts, ord),
                   Tail(handles_), ts, ord)

\* InformationalRule::report_reset.  The keys of the handle map are visited
\* in the HashMap's unspecified order; `hord` (a sequence that enumerates
\* Handles) is the order of this run.
Rule_report_reset(r, ts, ord, hord) ==
    LET handles_ == DrainOrder(DOMAIN r.handles, hord)
        r1 == ResetLoop(r, handles_, ts, ord)
    IN [r1 EXCEPT !.sco_handles = EmptyMap,
                  !.pending_disconnections = EmptyMap]

(***************************************************************************)
(* InformationalRule::process, one operator per packet kind it matches.    *)
(***************************************************************************)
\* Mutant of the ConnectionComplete arm: a failed attempt is not torn down.
Process_ConnectionComplete_never_ends(r, address, handle, success, ts, ord) ==
    Rule_report_connection_start(r, address, handle, "BREDR", ts)

Process_ConnectionComplete(r, address, handle, success, ts, ord) ==
    LET r1 == Rule_report_connection_start(r, address, handle, "BREDR", ts)
    IN IF ~success THEN Rule_report_connection_end(r1, handle, ts, ord) ELSE r1

Process_SynchronousConnectionComplete(r, address, handle, success, ts, ord) ==
    LET r1 == Rule_report_sco_connection_start(r, address, handle, ts)
    IN IF ~success THEN Rule_report_connection_end(r1, handle, ts, ord) ELSE r1

\* Mutant of the DisconnectionComplete arm: the teardown runs whatever the
\* pending entry says.
Process_DisconnectionComplete_ignores_flag(r, handle, ts, ord) ==
    LET r1 == Rule_report_connection_end(r, handle, ts, ord)
    IN [r1 EXCEPT !.pending_disconnections = MapRemove(@, handle)]

\* Mutant of the DisconnectionComplete arm: the pending entry stays.
Process_DisconnectionComplete_keeps_pending(r, handle, ts, ord) ==
    LET powering_off == IF handle \in DOMAIN r.pending_disconnections
                        THEN r.pending_disconnections[handle]
                        ELSE FALSE
    IN IF ~powering_off THEN Rule_report_connection_end(r, handle, ts, ord) ELSE r

Process_DisconnectionComplete(r, handle, ts, ord) ==
    LET powering_off == IF handle \in DOMAIN r.pending_disconnections
                        THEN r.pending_disconnections[handle]
                        ELSE FALSE
        r1 == IF ~powering_off THEN Rule_report_connection_end(r, handle, ts, ord) ELSE r
    IN [r1 EXCEPT !.pending_disconnections = MapRemove(@, handle)]

Process_LeConnectionComplete(r, address, handle, success, ts) ==
    IF ~success THEN r
    ELSE LET r1 == Rule_report_acl_state(r, address, "LE", "Initiating")
             r2 == Rule_report_connection_start(r1, address, handle, "LE", ts)
         IN Rule_report_address_type(r2, address, "LE")

Process_LeEnhancedConnectionComplete(r, address, handle, success, ts) ==
    IF ~success THEN r
    ELSE LET r1 == Rule_report_acl_state(r, address, "LE", "Initiating")
             r2 == Rule_report_connection_start(r1, address, handle, "LE", ts)
         IN Rule_report_address_type(r2, address, "LE")

Process_Reset(r, ts, ord, hord) == Rule_report_reset(r, ts, ord, hord)

Process_CreateConnection(r, address) ==
    Rule_report_address_type(Rule_report_acl_state(r, address, "BREDR", "Initiating"),
                             address, "BREDR")

Process_AcceptConnectionRequest(r, address) ==
    Rule_report_address_type(Rule_report_acl_state(r, address, "BREDR", "Accepting"),
                             address, "BREDR")

\* Mutant of the Disconnect arm: the teardown is synthesized for any reason.
Process_Disconnect_always_ends(r, handle, is_power_off, ts, ord) ==
    LET r1 == [r EXCEPT !.pending_disconnections = MapInsert(@, handle, is_power_off)]
    IN Rule_report_connection_end(r1, handle, ts, ord)

\* Mutant of the Disconnect arm: the teardown is synthesized before the
\* pending entry is recorded.
Process_Disconnect_ends_first(r, handle, is_power_off, ts, ord) ==
    LET r1 == IF is_power_off THEN Rule_report_connection_end(r, handle, ts, ord) ELSE r
    IN [r1 EXCEPT !.pending_disconnections = MapInsert(@, handle, is_power_off)]

Process_Disconnect(r, handle, is_power_off, ts, ord) ==
    LET r1 == [r EXCEPT !.pending_disconnections = MapInsert(@, handle, is_power_off)]
    IN IF is_power_off THEN Rule_report_connection_end(r1, handle, ts, ord) ELSE r1

(***************************************************************************)
(* The Bluetooth stack (system/gd/rust/linux/stack).                       *)
(*                                                                         *)
(* make_message_dispatcher: the closure it returns shares a queue of       *)
(* callbacks (dispatch_queue), an async mutex and the sender of the        *)
(* message channel with the tasks it spawns.  A task is at "lock" (waiting *)
(* for the async mutex), "pop" (holding it, before pop_front), "send"      *)
(* (holding it, in tx.send(..).await), "done" or "panicked".               *)
(***************************************************************************)
\* The callbacks a dispatcher is called with.
Cbs == 1..NumCbs

\* F: Fn(Cb) -> Message, for instance the variant Message::GattClient.
Message_f(cb) == <<"Message", cb>>

\* Stack::create_channel: channel::<Message>(1).
ChannelCapacity == 1

\* The state right after make_message_dispatcher returned: nothing queued,
\* the async mutex free (0; otherwise the task that holds it), no task, an
\* empty channel with its receiver alive.  `called` lists the callbacks the
\* closure was called with, `sent` the messages tx.send delivered to the
\* channel, `lock_order` the tasks in the order they got the async mutex.
Dispatcher_new ==
    [dispatch_queue |-> <<>>,
     async_mutex |-> 0,
     tasks |-> <<>>,
     channel |-> <<>>,
     receiver_closed |-> FALSE,
     called |-> <<>>,
     sent |-> <<>>,
     lock_order |-> <<>>]

(***************************************************************************)
(* BluetoothAdmin and its BluetoothAdminPolicyHelper.  A Uuid is a number, *)
(* a BluetoothDevice is a number; Option<PolicyEffect> is a sequence of    *)
(* length at most 1.                                                       *)
(***************************************************************************)
Uuids == 1..NumUuids

RemoteDevices == 1..NumRemoteDevices

\* impl Default for BluetoothAdminPolicyHelper.
BluetoothAdminPolicyHelper_default == [allowed_services |-> {}]

\* BluetoothAdmin::new, with what the object reaches from outside - the uuids
\* its adapter holds for each remote device (remote_uuids) and the allowlist
\* in the config file at `path`, if one was written (config) - and what the
\* outside saw of it: `notified` maps a device to the effect last passed to
\* on_device_policy_effect_changed, `allowlist_notified` is the allowlist
\* last passed to on_service_allowlist_changed, `unheard` says that a call
\* was made while no callback was registered, `call` is the last call and
\* `ncalls` the number of calls.
BluetoothAdmin_new ==
    [admin_helper |-> BluetoothAdminPolicyHelper_default,
     callbacks |-> {},
     device_policy_affect_cache |-> EmptyMap,
     remote_uuids |-> [d \in RemoteDevices |-> <<>>],
     config |-> <<>>,
     notified |-> EmptyMap,
     allowlist_notified |-> <<>>,
     unheard |-> FALSE,
     call |-> [kind |-> "new"],
     ncalls |-> 0]

(***************************************************************************)
(* State: the fields of InformationalRule, the packet processed last, the  *)
(* number of packets processed, the number of advertising / inquiry        *)
(* payload bytes processed, a history of the connection-establishing       *)
(* commands per address and a history of the packets per handle; and, for  *)
(* the Bluetooth stack's message dispatcher and admin policy, the          *)
(* dispatcher with its tasks and the BluetoothAdmin object.                *)
(***************************************************************************)
VARIABLES devices, handles, sco_handles, unknown_connections, pending_disconnections,
          pkt, npackets, nbytes, hist, handle_hist, power_off_hist, dispatcher, admin

vars == <<devices, handles, sco_handles, unknown_connections, pending_disconnections,
          pkt, npackets, nbytes, hist, handle_hist, power_off_hist, dispatcher, admin>>

Rule ==
    [devices |-> devices,
     handles |-> handles,
     sco_handles |-> sco_handles,
     unknown_connections |-> unknown_connections,
     pending_disconnections |-> pending_disconnections]

\* The pending-teardown entry a packet finds for its handle when it arrives.
PendingBefore(handle) ==
    IF handle \notin DOMAIN pending_disconnections THEN "none"
    ELSE IF pending_disconnections[handle] THEN "power_off" ELSE "other"

\* Packet { ts, inner }: the fields of the packet kinds the rule reads (a
\* field the kind does not have is 0 / TRUE / FALSE), and with them the
\* pending-teardown entry the packet found.
Packet(kind, addr, handle, success, power_off, ts) ==
    [kind |-> kind, addr |-> addr, handle |-> handle, success |-> success,
     power_off |-> power_off, ts |-> ts, pending_before |-> PendingBefore(handle)]

\* All sessions of a device, of both transports.
DeviceAcls(d) == d.acls["BREDR"] \o d.acls["LE"]

\* The orders a HashMap over the keys S can be iterated in.
Orders(S) == {o \in [1..Cardinality(S) -> S] : \A i, j \in 1..Cardinality(S) : o[i] = o[j] => i = j}

\* The packets arrive in non-decreasing timestamp order.
NextTs == pkt.ts..MaxTs

\* The rule compares addresses and handles for equality only, so those it has
\* not recorded yet are interchangeable: a packet names a recorded address
\* (handle) or the least unrecorded one.
UsedHandles(r) ==
    DOMAIN r.handles \cup DOMAIN r.sco_handles \cup DOMAIN r.unknown_connections
    \cup DOMAIN r.pending_disconnections
    \cup {r.sco_handles[h] : h \in DOMAIN r.sco_handles}
    \cup UNION {{d.acls[t][i].handle : i \in 1..Len(d.acls[t])} :
                   d \in {r.devices[a] : a \in DOMAIN r.devices}, t \in Transports}

PacketAddrs == {a \in Addrs : a <= Cardinality(DOMAIN devices) + 1}

PacketHandles == {h \in Handles : h <= Cardinality(UsedHandles(Rule)) + 1}

(***************************************************************************)
(* The history: for each address the latest connection-establishing        *)
(* command (last_cmd), how many connection-complete events of each         *)
(* transport ran report_connection_start since that command (cc, counted   *)
(* up to 2), and whether a BR/EDR session of the address was ended since   *)
(* (ended).                                                                *)
(***************************************************************************)
HistInit == [a \in Addrs |-> [last_cmd |-> "None",
                              cc |-> [t \in Transports |-> 0],
                              ended |-> FALSE]]

\* The transport whose report_connection_start packet p runs, "None" if none.
StartTransport(p) ==
    CASE p.kind = "ConnectionComplete" -> "BREDR"
      [] p.kind \in {"LeConnectionComplete", "LeEnhancedConnectionComplete"} /\ p.success -> "LE"
      [] OTHER -> "None"

NumEnded(r, a, t) ==
    IF a \notin DOMAIN r.devices THEN 0
    ELSE Cardinality({i \in 1..Len(r.devices[a].acls[t]) :
                         r.devices[a].acls[t][i].end_time # INVALID_TS})

HistNext(h, r, r2, p) ==
    [a \in Addrs |->
        IF p.kind \in {"CreateConnection", "AcceptConnectionRequest"} /\ p.addr = a
        THEN [last_cmd |-> IF p.kind = "CreateConnection" THEN "Create" ELSE "Accept",
              cc |-> [t \in Transports |-> 0],
              ended |-> FALSE]
        ELSE [last_cmd |-> h[a].last_cmd,
              cc |-> [t \in Transports |->
                         IF p.addr = a /\ StartTransport(p) = t /\ h[a].cc[t] < 2
                         THEN h[a].cc[t] + 1
                         ELSE h[a].cc[t]],
              ended |-> h[a].ended \/ NumEnded(r2, a, "BREDR") # NumEnded(r, a, "BREDR")]]

(***************************************************************************)
(* The history of a handle: "cc" when a success connection-complete event  *)
(* for the handle was processed and no Disconnect command for the handle   *)
(* since, "cc_after_disconnect" when moreover that event found a           *)
(* pending-teardown entry for the handle, "none" otherwise.                *)
(***************************************************************************)
HandleHistInit == [h \in Handles |-> "none"]

HandleHistNext(hh, p) ==
    [h \in Handles |->
        IF p.handle # h THEN hh[h]
        ELSE IF p.kind = "Disconnect" THEN "none"
        ELSE IF StartTransport(p) # "None" /\ p.success
        THEN (IF p.pending_before # "none" THEN "cc_after_disconnect" ELSE "cc")
        ELSE hh[h]]

(***************************************************************************)
(* The power-off history of a handle: "power_off" when a Disconnect        *)
(* command with the power-off reason was processed for the handle and no   *)
(* command or event that names the handle since, "stale" when since that   *)
(* command only further Disconnect commands with another reason named the  *)
(* handle (no DisconnectionComplete, no connection-complete event of any   *)
(* kind for the handle and no Reset), "none" otherwise.                    *)
(***************************************************************************)
PowerOffHistInit == [h \in Handles |-> "none"]

PowerOffHistNext(ph, p) ==
    [h \in Handles |->
        IF p.kind = "Reset" THEN "none"
        ELSE IF p.handle # h THEN ph[h]
        ELSE IF p.kind = "Disconnect"
        THEN (IF p.power_off THEN "power_off"
              ELSE IF ph[h] = "none" THEN "none" ELSE "stale")
        ELSE IF p.kind \in {"DisconnectionComplete",
                            "ConnectionComplete", "SynchronousConnectionComplete",
                            "LeConnectionComplete", "LeEnhancedConnectionComplete"}
        THEN "none"
        ELSE ph[h]]

\* The rule after packet p, and the histories.
CommitRule(r2, p) ==
    /\ devices' = r2.devices
    /\ handles' = r2.handles
    /\ sco_handles' = r2.sco_handles
    /\ unknown_connections' = r2.unknown_connections
    /\ pending_disconnections' = r2.pending_disconnections
    /\ pkt' = p
    /\ hist' = HistNext(hist, Rule, r2, p)
    /\ handle_hist' = HandleHistNext(handle_hist, p)
    /\ power_off_hist' = PowerOffHistNext(power_off_hist, p)
    /\ UNCHANGED <<dispatcher, admin>>

Commit(r2, p) ==
    /\ npackets < MaxPackets
    /\ npackets' = npackets + 1
    /\ nbytes' = nbytes
    /\ CommitRule(r2, p)

Init ==
    /\ devices = InformationalRule_new.devices
    /\ handles = InformationalRule_new.handles
    /\ sco_handles = InformationalRule_new.sco_handles
    /\ unknown_connections = InformationalRule_new.unknown_connections
    /\ pending_disconnections = InformationalRule_new.pending_disconnections
    /\ pkt = Packet("None", 0, 0, TRUE, FALSE, 0)
    /\ npackets = 0
    /\ nbytes = 0
    /\ hist = HistInit
    /\ handle_hist = HandleHistInit
    /\ power_off_hist = PowerOffHistInit
    /\ dispatcher = Dispatcher_new
    /\ admin = BluetoothAdmin_new

(***************************************************************************)
(* One action per packet kind.                                             *)
(***************************************************************************)
ConnectionComplete ==
    \E address \in PacketAddrs, handle \in PacketHandles, success \in BOOLEAN, ts \in NextTs,
       ord \in Orders(ProfileIds) :
        Commit(Process_ConnectionComplete(Rule, address, handle, success, ts, ord),
               Packet("ConnectionComplete", address, handle, success, FALSE, ts))

SynchronousConnectionComplete ==
    \E address \in PacketAddrs, handle \in PacketHandles, success \in BOOLEAN, ts \in NextTs,
       ord \in Orders(ProfileIds) :
        Commit(Process_SynchronousConnectionComplete(Rule, address, handle, success, ts, ord),
               Packet("SynchronousConnectionComplete", address, handle, success, FALSE, ts))

DisconnectionComplete ==
    \E handle \in PacketHandles, ts \in NextTs, ord \in Orders(ProfileIds) :
        Commit(Process_DisconnectionComplete(Rule, handle, ts, ord),
               Packet("DisconnectionComplete", 0, handle, TRUE, FALSE, ts))

LeConnectionComplete ==
    \E address \in PacketAddrs, handle \in PacketHandles, success \in BOOLEAN, ts \in NextTs :
        Commit(Process_LeConnectionComplete(Rule, address, handle, success, ts),
               Packet("LeConnectionComplete", address, handle, success, FALSE, ts))

LeEnhancedConnectionComplete ==
    \E address \in PacketAddrs, handle \in PacketHandles, success \in BOOLEAN, ts \in NextTs :
        Commit(Process_LeEnhancedConnectionComplete(Rule, address, handle, success, ts),
               Packet("LeEnhancedConnectionComplete", address, handle, success, FALSE, ts))

Reset ==
    \E ts \in NextTs, ord \in Orders(ProfileIds), hord \in Orders(Handles) :
        Commit(Process_Reset(Rule, ts, ord, hord),
               Packet("Reset", 0, 0, TRUE, FALSE, ts))

CreateConnection ==
    \E address \in PacketAddrs, ts \in NextTs :
        Commit(Process_CreateConnection(Rule, address),
               Packet("CreateConnection", address, 0, TRUE, FALSE, ts))

AcceptConnectionRequest ==
    \E address \in PacketAddrs, ts \in NextTs :
        Commit(Process_AcceptConnectionRequest(Rule, address),
               Packet("AcceptConnectionRequest", address, 0, TRUE, FALSE, ts))

Disconnect ==
    \E handle \in PacketHandles, is_power_off \in BOOLEAN, ts \in NextTs,
       ord \in Orders(ProfileIds) :
        Commit(Process_Disconnect(Rule, handle, is_power_off, ts, ord),
               Packet("Disconnect", 0, handle, TRUE, is_power_off, ts))

Next ==
    \/ ConnectionComplete
    \/ SynchronousConnectionComplete
    \/ DisconnectionComplete
    \/ LeConnectionComplete
    \/ LeEnhancedConnectionComplete
    \/ Reset
    \/ CreateConnection
    \/ AcceptConnectionRequest
    \/ Disconnect

Spec == Init /\ [][Next]_vars

TypeOK ==
    /\ DOMAIN devices \subseteq Addrs
    /\ DOMAIN handles \subseteq Handles
    /\ \A h \in DOMAIN handles : handles[h] \in DOMAIN devices
    /\ DOMAIN sco_handles \subseteq Handles
    /\ DOMAIN pending_disconnections \subseteq Handles
    /\ pkt.ts \in Timestamps
    /\ npackets \in 0..MaxPackets

(***************************************************************************)
(* Advertising / inquiry data: GapData::parse and the loop that feeds it.  *)
(* A buffer is a sequence of bytes; Rust's 0-based slice bytes[a..b] is    *)
(* SubSeq(bytes, a + 1, b).                                                *)
(***************************************************************************)
\* The byte values the payloads are built from: 0 (padding), 1 and 2 (small
\* lengths, and the type codes Flags and IncompleteList16BitUuids), 9 (the
\* type code CompleteLocalName) and 11 (no type code).
Bytes == {0, 1, 2, 9, 11}

Buffers == UNION {[1..n -> Bytes] : n \in 0..MaxLen}

\* GapDataType::try_from: the codes of the generated enum GapDataType up to
\* 0x0D; Invalid is 0, ShortenedLocalName 8, CompleteLocalName 9.
GapDataType_try_from(byte) ==
    IF byte \in (0..10) \cup {13} THEN [ok |-> TRUE, data_type |-> byte] ELSE [ok |-> FALSE]

GapErr == [ok |-> FALSE]

GapOk(data_type, data) == [ok |-> TRUE, data_type |-> data_type, data |-> data]

\* Mutant of parse: any second byte is taken as a type code.
GapData_parse_accepts_any_type(bytes) ==
    IF Len(bytes) = 0 THEN GapErr
    ELSE IF Len(bytes) = 1 THEN (IF bytes[1] # 0 THEN GapErr ELSE GapOk(0, <<>>))
    ELSE LET data_size == bytes[1]
         IN IF data_size = 0 THEN GapOk(0, SubSeq(bytes, 3, Len(bytes)))
            ELSE IF data_size > Len(bytes) - 1 THEN GapErr
            ELSE GapOk(bytes[2], SubSeq(bytes, 3, data_size + 1))

\* Mutant of parse: the sentinel has an empty payload.
GapData_parse_empty_sentinel(bytes) ==
    IF Len(bytes) = 0 THEN GapErr
    ELSE IF Len(bytes) = 1 THEN (IF bytes[1] # 0 THEN GapErr ELSE GapOk(0, <<>>))
    ELSE LET data_size == bytes[1]
         IN IF data_size = 0 THEN GapOk(0, <<>>)
            ELSE IF data_size > Len(bytes) - 1 THEN GapErr
            ELSE IF ~GapDataType_try_from(bytes[2]).ok THEN GapErr
            ELSE GapOk(GapDataType_try_from(bytes[2]).data_type,
                       SubSeq(bytes, 3, data_size + 1))

GapData_parse(bytes) ==
    IF Len(bytes) = 0 THEN GapErr
    ELSE IF Len(bytes) = 1 THEN (IF bytes[1] # 0 THEN GapErr ELSE GapOk(0, <<>>))
    ELSE LET data_size == bytes[1]
         IN IF data_size = 0 THEN GapOk(0, SubSeq(bytes, 3, Len(bytes)))
            ELSE IF data_size > Len(bytes) - 1 THEN GapErr
            ELSE IF ~GapDataType_try_from(bytes[2]).ok THEN GapErr
            ELSE GapOk(GapDataType_try_from(bytes[2]).data_type,
                       SubSeq(bytes, 3, data_size + 1))

\* String::from_utf8_lossy on a payload: an ASCII byte is its character, any
\* other byte (the payloads here hold none) the replacement character.
String_from_utf8_lossy(data) == [i \in 1..Len(data) |-> IF data[i] < 128 THEN data[i] ELSE 65533]

Rule_report_name(r, address, name) ==
    LET r1 == Rule_get_or_allocate_device(r, address)
    IN [r1 EXCEPT !.devices[address].names = @ \cup {name}]

Rule_process_gap_data(r, address, data) ==
    IF data.data_type \in {8, 9}
    THEN Rule_report_name(r, address, String_from_utf8_lossy(data.data))
    ELSE r

\* Mutant of the advance: one byte short.
GapAdvance_one_short(offset, gap_data) == offset + Len(gap_data.data) + 1

\* The offset process_raw_gap_data moves to after a decoded record.
GapAdvance(offset, gap_data) == offset + Len(gap_data.data) + 2

\* The records the loop of process_raw_gap_data decodes from `offset` on,
\* each with the offset it was parsed at.
RECURSIVE GapDecoded(_, _)
GapDecoded(data, offset) ==
    IF offset >= Len(data) THEN <<>>
    ELSE LET gap_data == GapData_parse(SubSeq(data, offset + 1, Len(data)))
         IN IF gap_data.ok
            THEN <<[offset |-> offset, gap_data |-> gap_data]>>
                 \o GapDecoded(data, GapAdvance(offset, gap_data))
            ELSE <<>>

RECURSIVE ProcessDecoded(_, _, _)
ProcessDecoded(r, address, decoded) ==
    IF decoded = <<>> THEN r
    ELSE ProcessDecoded(Rule_process_gap_data(r, address, Head(decoded).gap_data),
                        address, Tail(decoded))

\* Mutant of process_raw_gap_data: a payload with a failing record gives
\* nothing at all.
Rule_process_raw_gap_data_all_or_nothing(r, address, data) ==
    LET decoded == GapDecoded(data, 0)
        end == IF decoded = <<>> THEN 0
               ELSE GapAdvance(Last(decoded).offset, Last(decoded).gap_data)
    IN IF end < Len(data) THEN r ELSE ProcessDecoded(r, address, decoded)

Rule_process_raw_gap_data(r, address, data) ==
    ProcessDecoded(r, address, GapDecoded(data, 0))

Process_ExtendedInquiryResult(r, address, data) ==
    Rule_report_address_type(Rule_process_raw_gap_data(r, address, data), address, "BREDR")

\* The loop over the responses of an LE advertising report.
RECURSIVE ProcessResponses(_, _)
ProcessResponses(r, responses) ==
    IF responses = <<>> THEN r
    ELSE LET resp == Head(responses)
             r1 == Rule_process_raw_gap_data(r, resp.address, resp.advertising_data)
         IN ProcessResponses(Rule_report_address_type(r1, resp.address, "LE"),
                             Tail(responses))

Process_LeAdvertisingReport(r, responses) == ProcessResponses(r, responses)

Process_LeExtendedAdvertisingReport(r, responses) == ProcessResponses(r, responses)

(***************************************************************************)
(* The report packets.  A report packet carries its responses (one, for    *)
(* an ExtendedInquiryResult): each an address and a payload.               *)
(***************************************************************************)
GapPacket(kind, responses, ts) ==
    [kind |-> kind, addr |-> 0, handle |-> 0, success |-> TRUE, power_off |-> FALSE,
     ts |-> ts, pending_before |-> "none", responses |-> responses]

RECURSIVE ResponseBytes(_)
ResponseBytes(responses) ==
    IF responses = <<>> THEN 0
    ELSE Len(Head(responses).advertising_data) + ResponseBytes(Tail(responses))

\* The payloads a packet can carry when `used` bytes were fed before.
BuffersWithin(used) == {b \in Buffers : used + Len(b) <= MaxBytes}

\* The lists of at most n responses whose payloads fit the bytes left.
RECURSIVE ResponseLists(_, _)
ResponseLists(used, n) ==
    IF n = 0 THEN {<<>>}
    ELSE {<<>>} \cup
         UNION {{<<[address |-> a, advertising_data |-> b]>> \o rest :
                    rest \in ResponseLists(used + Len(b), n - 1)} :
                a \in PacketAddrs, b \in BuffersWithin(used)}

Responses == ResponseLists(nbytes, MaxResponses) \ {<<>>}

GapCommit(r2, p) ==
    /\ nbytes + ResponseBytes(p.responses) <= MaxBytes
    /\ npackets' = npackets + 1
    /\ nbytes' = nbytes + ResponseBytes(p.responses)
    /\ CommitRule(r2, p)

\* The handlers of the report packets do not read the timestamp: a report
\* packet is taken to carry the timestamp of the packet before it.
ExtendedInquiryResult ==
    /\ npackets < MaxGapPackets
    /\ \E address \in PacketAddrs, data \in BuffersWithin(nbytes) :
           GapCommit(Process_ExtendedInquiryResult(Rule, address, data),
                     GapPacket("ExtendedInquiryResult",
                               <<[address |-> address, advertising_data |-> data]>>, pkt.ts))

LeAdvertisingReport ==
    /\ npackets < MaxGapPackets
    /\ \E responses \in Responses :
           GapCommit(Process_LeAdvertisingReport(Rule, responses),
                     GapPacket("LeAdvertisingReport", responses, pkt.ts))

LeExtendedAdvertisingReport ==
    /\ npackets < MaxGapPackets
    /\ \E responses \in Responses :
           GapCommit(Process_LeExtendedAdvertisingReport(Rule, responses),
                     GapPacket("LeExtendedAdvertisingReport", responses, pkt.ts))

GapNext ==
    \/ ExtendedInquiryResult
    \/ LeAdvertisingReport
    \/ LeExtendedAdvertisingReport

GapSpec == Init /\ [][GapNext]_vars

(***************************************************************************)
(* L2CAP signalling: the channel tables of a link session.                 *)
(***************************************************************************)
Cids == 1..NumCids

\* The service ids (PSM) the modelled requests carry: 1 is SDP, 2 maps to no
\* profile type.
Psms == {1, 2}

ConnectionResponseResults == {"Success", "Pending", "PsmNotSupported"}

\* CidState::Pending(psm), CidState::Connected(cid, psm)
CidState_Pending(psm) == <<"Pending", psm>>

CidState_Connected(cid, psm) == <<"Connected", cid, psm>>

\* ProfileId::L2capCid(CidInformation { host_cid, peer_cid })
L2capCid(host_cid, peer_cid) == <<"L2capCid", host_cid, peer_cid>>

\* ProfileType::from_psm; an Option is a sequence of at most one element.
ProfileType_from_psm(psm) ==
    IF psm = 1 THEN <<"Sdp">>
    ELSE IF psm = 3 THEN <<"Rfcomm">>
    ELSE IF psm = 17 THEN <<"HidCtrl">>
    ELSE IF psm = 19 THEN <<"HidIntr">>
    ELSE IF psm = 23 THEN <<"Avctp">>
    ELSE IF psm = 25 THEN <<"Avdtp">>
    ELSE IF psm = 31 THEN <<"Att">>
    ELSE IF psm = 39 THEN <<"Eatt">>
    ELSE <<>>

\* Mutant of report_l2cap_conn_req: a request does not touch a channel id
\* that has an entry.
Acl_report_l2cap_conn_req_keeps_entry(self, psm, cid, initiator, ts) ==
    IF initiator = "Host" /\ cid \notin DOMAIN self.host_cids
    THEN [self EXCEPT !.host_cids = MapInsert(@, cid, CidState_Pending(psm))]
    ELSE IF initiator = "Peer" /\ cid \notin DOMAIN self.peer_cids
    THEN [self EXCEPT !.peer_cids = MapInsert(@, cid, CidState_Pending(psm))]
    ELSE self

Acl_report_l2cap_conn_req(self, psm, cid, initiator, ts) ==
    IF initiator = "Host"
    THEN [self EXCEPT !.host_cids = MapInsert(@, cid, CidState_Pending(psm))]
    ELSE IF initiator = "Peer"
    THEN [self EXCEPT !.peer_cids = MapInsert(@, cid, CidState_Pending(psm))]
    ELSE self

\* Mutant of report_l2cap_conn_rsp: a success response promotes the host
\* table only.
Acl_report_l2cap_conn_rsp_host_only(self, status, host_cid, peer_cid, initiator, ts) ==
    LET cid_state_option ==
            IF initiator = "Host"
            THEN (IF host_cid \in DOMAIN self.host_cids
                  THEN <<self.host_cids[host_cid]>> ELSE <<>>)
            ELSE IF initiator = "Peer"
            THEN (IF peer_cid \in DOMAIN self.peer_cids
                  THEN <<self.peer_cids[peer_cid]>> ELSE <<>>)
            ELSE <<>>
        psm_option ==
            IF cid_state_option # <<>> /\ cid_state_option[1][1] = "Pending"
            THEN <<cid_state_option[1][2]>> ELSE <<>>
    IN IF psm_option = <<>> THEN self
       ELSE LET psm == psm_option[1]
                profile_option == ProfileType_from_psm(psm)
                profile_id == L2capCid(host_cid, peer_cid)
            IN IF status = "Success"
               THEN LET connected ==
                            [self EXCEPT
                                !.host_cids = MapInsert(@, host_cid,
                                                        CidState_Connected(peer_cid, psm))]
                    IN IF profile_option # <<>>
                       THEN Acl_report_profile_start(connected, profile_option[1], profile_id,
                                                     initiator, ts)
                       ELSE connected
               ELSE IF profile_option # <<>>
                    THEN Acl_report_profile_end(
                             Acl_report_profile_start(self, profile_option[1], profile_id,
                                                      initiator, ts),
                             profile_option[1], profile_id, initiator, ts)
                    ELSE self

\* Mutant of report_l2cap_conn_rsp: a failed response starts the profile and
\* does not end it.
Acl_report_l2cap_conn_rsp_failure_left_active(self, status, host_cid, peer_cid, initiator, ts) ==
    LET cid_state_option ==
            IF initiator = "Host"
            THEN (IF host_cid \in DOMAIN self.host_cids
                  THEN <<self.host_cids[host_cid]>> ELSE <<>>)
            ELSE IF initiator = "Peer"
            THEN (IF peer_cid \in DOMAIN self.peer_cids
                  THEN <<self.peer_cids[peer_cid]>> ELSE <<>>)
            ELSE <<>>
        psm_option ==
            IF cid_state_option # <<>> /\ cid_state_option[1][1] = "Pending"
            THEN <<cid_state_option[1][2]>> ELSE <<>>
    IN IF psm_option = <<>> THEN self
       ELSE LET psm == psm_option[1]
                profile_option == ProfileType_from_psm(psm)
                profile_id == L2capCid(host_cid, peer_cid)
            IN IF status = "Success"
               THEN LET connected ==
                            [self EXCEPT
                                !.host_cids = MapInsert(@, host_cid,
                                                        CidState_Connected(peer_cid, psm)),
                                !.peer_cids = MapInsert(@, peer_cid,
                                                        CidState_Connected(host_cid, psm))]
                    IN IF profile_option # <<>>
                       THEN Acl_report_profile_start(connected, profile_option[1], profile_id,
                                                     initiator, ts)
                       ELSE connected
               ELSE IF profile_option # <<>>
                    THEN Acl_report_profile_start(self, profile_option[1], profile_id,
                                                  initiator, ts)
                    ELSE self

Acl_report_l2cap_conn_rsp(self, status, host_cid, peer_cid, initiator, ts) ==
    LET cid_state_option ==
            IF initiator = "Host"
            THEN (IF host_cid \in DOMAIN self.host_cids
                  THEN <<self.host_cids[host_cid]>> ELSE <<>>)
            ELSE IF initiator = "Peer"
            THEN (IF peer_cid \in DOMAIN self.peer_cids
                  THEN <<self.peer_cids[peer_cid]>> ELSE <<>>)
            ELSE <<>>
        psm_option ==
            IF cid_state_option # <<>> /\ cid_state_option[1][1] = "Pending"
            THEN <<cid_state_option[1][2]>> ELSE <<>>
    IN IF psm_option = <<>> THEN self
       ELSE LET psm == psm_option[1]
                profile_option == ProfileType_from_psm(psm)
                profile_id == L2capCid(host_cid, peer_cid)
            IN IF status = "Success"
               THEN LET connected ==
                            [self EXCEPT
                                !.host_cids = MapInsert(@, host_cid,
                                                        CidState_Connected(peer_cid, psm)),
                                !.peer_cids = MapInsert(@, peer_cid,
                                                        CidState_Connected(host_cid, psm))]
                    IN IF profile_option # <<>>
                       THEN Acl_report_profile_start(connected, profile_option[1], profile_id,
                                                     initiator, ts)
                       ELSE connected
               ELSE IF profile_option # <<>>
                    THEN Acl_report_profile_end(
                             Acl_report_profile_start(self, profile_option[1], profile_id,
                                                      initiator, ts),
                             profile_option[1], profile_id, initiator, ts)
                    ELSE self

\* Mutant of report_l2cap_disconn_rsp: the service of the peer-side entry
\* comes first.
Acl_report_l2cap_disconn_rsp_prefers_peer(self, host_cid, peer_cid, initiator, ts) ==
    LET host_psm == IF host_cid \in DOMAIN self.host_cids
                       /\ self.host_cids[host_cid][1] = "Connected"
                    THEN <<self.host_cids[host_cid][3]>> ELSE <<>>
        peer_psm == IF peer_cid \in DOMAIN self.peer_cids
                       /\ self.peer_cids[peer_cid][1] = "Connected"
                    THEN <<self.peer_cids[peer_cid][3]>> ELSE <<>>
        removed == [self EXCEPT !.host_cids = MapRemove(@, host_cid),
                                !.peer_cids = MapRemove(@, peer_cid)]
        psm_option == IF peer_psm # <<>> THEN peer_psm ELSE host_psm
    IN IF psm_option = <<>> THEN removed
       ELSE LET profile_option == ProfileType_from_psm(psm_option[1])
            IN IF profile_option # <<>>
               THEN Acl_report_profile_end(removed, profile_option[1],
                                           L2capCid(host_cid, peer_cid), initiator, ts)
               ELSE removed

Acl_report_l2cap_disconn_rsp(self, host_cid, peer_cid, initiator, ts) ==
    LET host_psm == IF host_cid \in DOMAIN self.host_cids
                       /\ self.host_cids[host_cid][1] = "Connected"
                    THEN <<self.host_cids[host_cid][3]>> ELSE <<>>
        peer_psm == IF peer_cid \in DOMAIN self.peer_cids
                       /\ self.peer_cids[peer_cid][1] = "Connected"
                    THEN <<self.peer_cids[peer_cid][3]>> ELSE <<>>
        removed == [self EXCEPT !.host_cids = MapRemove(@, host_cid),
                                !.peer_cids = MapRemove(@, peer_cid)]
        psm_option == IF host_psm # <<>> THEN host_psm ELSE peer_psm
    IN IF psm_option = <<>> THEN removed
       ELSE LET profile_option == ProfileType_from_psm(psm_option[1])
            IN IF profile_option # <<>>
               THEN Acl_report_profile_end(removed, profile_option[1],
                                           L2capCid(host_cid, peer_cid), initiator, ts)
               ELSE removed

Rule_report_l2cap_conn_req(r, handle, psm, cid, initiator, ts) ==
    LET r1 == Rule_get_or_allocate_connection(r, handle, "BREDR")
        conn == Rule_connection(r1, handle, "BREDR")
    IN Rule_connection_write(r1, handle, "BREDR",
                             Acl_report_l2cap_conn_req(conn, psm, cid, initiator, ts))

Rule_report_l2cap_conn_rsp(r, handle, status, host_cid, peer_cid, initiator, ts) ==
    IF status = "Pending" THEN r
    ELSE LET r1 == Rule_get_or_allocate_connection(r, handle, "BREDR")
             conn == Rule_connection(r1, handle, "BREDR")
         IN Rule_connection_write(r1, handle, "BREDR",
                Acl_report_l2cap_conn_rsp(conn, status, host_cid, peer_cid, initiator, ts))

Rule_report_l2cap_disconn_rsp(r, handle, host_cid, peer_cid, initiator, ts) ==
    LET r1 == Rule_get_or_allocate_connection(r, handle, "BREDR")
        conn == Rule_connection(r1, handle, "BREDR")
    IN Rule_connection_write(r1, handle, "BREDR",
                             Acl_report_l2cap_disconn_rsp(conn, host_cid, peer_cid, initiator, ts))

\* The arms of InformationalRule::process for the L2CAP control frames the
\* host sends (AclTx) and receives (AclRx).
Process_AclTx_ConnectionRequest(r, handle, psm, source_cid, ts) ==
    Rule_report_l2cap_conn_req(r, handle, psm, source_cid, "Host", ts)

Process_AclTx_ConnectionResponse(r, handle, result, destination_cid, source_cid, ts) ==
    Rule_report_l2cap_conn_rsp(r, handle, result, destination_cid, source_cid, "Peer", ts)

Process_AclTx_DisconnectionResponse(r, handle, destination_cid, source_cid, ts) ==
    Rule_report_l2cap_disconn_rsp(r, handle, destination_cid, source_cid, "Peer", ts)

Process_AclRx_ConnectionRequest(r, handle, psm, source_cid, ts) ==
    Rule_report_l2cap_conn_req(r, handle, psm, source_cid, "Peer", ts)

Process_AclRx_ConnectionResponse(r, handle, result, destination_cid, source_cid, ts) ==
    Rule_report_l2cap_conn_rsp(r, handle, result, source_cid, destination_cid, "Host", ts)

Process_AclRx_DisconnectionResponse(r, handle, destination_cid, source_cid, ts) ==
    Rule_report_l2cap_disconn_rsp(r, handle, source_cid, destination_cid, "Host", ts)

\* An L2CAP control frame as the packet processed last.
L2capPacket(kind, handle, psm, result, destination_cid, source_cid, ts) ==
    [kind |-> kind, addr |-> 0, handle |-> handle, success |-> TRUE, power_off |-> FALSE,
     ts |-> ts, pending_before |-> PendingBefore(handle),
     psm |-> psm, result |-> result,
     destination_cid |-> destination_cid, source_cid |-> source_cid]

\* All sessions of a rule state, the unknown-session bucket included.
RuleAcls(r) ==
    {r.unknown_connections[h] : h \in DOMAIN r.unknown_connections}
    \cup UNION {{d.acls[t][i] : i \in 1..Len(d.acls[t])} :
                   d \in {r.devices[a] : a \in DOMAIN r.devices}, t \in Transports}

\* The rule compares channel ids for equality only: a frame names a channel
\* id some table holds or the least one none holds.
UsedCids(r) ==
    UNION {DOMAIN acl.host_cids \cup DOMAIN acl.peer_cids : acl \in RuleAcls(r)}

PacketCids == {c \in Cids : c <= Cardinality(UsedCids(Rule)) + 1}

L2capCommit(r2, p) ==
    /\ npackets' = npackets + 1
    /\ nbytes' = nbytes
    /\ CommitRule(r2, p)

\* A frame of each kind on one of the handles `hs`.
AclTxConnectionRequestOn(hs) ==
    \E handle \in hs, psm \in Psms, source_cid \in PacketCids, ts \in NextTs :
        L2capCommit(Process_AclTx_ConnectionRequest(Rule, handle, psm, source_cid, ts),
                    L2capPacket("AclTxConnectionRequest", handle, psm, "Success",
                                0, source_cid, ts))

AclTxConnectionResponseOn(hs) ==
    \E handle \in hs, result \in ConnectionResponseResults,
       destination_cid \in PacketCids, source_cid \in PacketCids, ts \in NextTs :
        L2capCommit(Process_AclTx_ConnectionResponse(Rule, handle, result,
                                                     destination_cid, source_cid, ts),
                    L2capPacket("AclTxConnectionResponse", handle, 0, result,
                                destination_cid, source_cid, ts))

AclTxDisconnectionResponseOn(hs) ==
    \E handle \in hs, destination_cid \in PacketCids, source_cid \in PacketCids,
       ts \in NextTs :
        L2capCommit(Process_AclTx_DisconnectionResponse(Rule, handle,
                                                        destination_cid, source_cid, ts),
                    L2capPacket("AclTxDisconnectionResponse", handle, 0, "Success",
                                destination_cid, source_cid, ts))

AclRxConnectionRequestOn(hs) ==
    \E handle \in hs, psm \in Psms, source_cid \in PacketCids, ts \in NextTs :
        L2capCommit(Process_AclRx_ConnectionRequest(Rule, handle, psm, source_cid, ts),
                    L2capPacket("AclRxConnectionRequest", handle, psm, "Success",
                                0, source_cid, ts))

AclRxConnectionResponseOn(hs) ==
    \E handle \in hs, result \in ConnectionResponseResults,
       destination_cid \in PacketCids, source_cid \in PacketCids, ts \in NextTs :
        L2capCommit(Process_AclRx_ConnectionResponse(Rule, handle, result,
                                                     destination_cid, source_cid, ts),
                    L2capPacket("AclRxConnectionResponse", handle, 0, result,
                                destination_cid, source_cid, ts))

AclRxDisconnectionResponseOn(hs) ==
    \E handle \in hs, destination_cid \in PacketCids, source_cid \in PacketCids,
       ts \in NextTs :
        L2capCommit(Process_AclRx_DisconnectionResponse(Rule, handle,
                                                        destination_cid, source_cid, ts),
                    L2capPacket("AclRxDisconnectionResponse", handle, 0, "Success",
                                destination_cid, source_cid, ts))

AclTxConnectionRequest == npackets < MaxL2capPackets /\ AclTxConnectionRequestOn(PacketHandles)

AclTxConnectionResponse == npackets < MaxL2capPackets /\ AclTxConnectionResponseOn(PacketHandles)

AclTxDisconnectionResponse ==
    npackets < MaxL2capPackets /\ AclTxDisconnectionResponseOn(PacketHandles)

AclRxConnectionRequest == npackets < MaxL2capPackets /\ AclRxConnectionRequestOn(PacketHandles)

AclRxConnectionResponse == npackets < MaxL2capPackets /\ AclRxConnectionResponseOn(PacketHandles)

AclRxDisconnectionResponse ==
    npackets < MaxL2capPackets /\ AclRxDisconnectionResponseOn(PacketHandles)

\* The L2CAP frames together with the event that opens the link sessions
\* they belong to.
L2capNext ==
    \/ ConnectionComplete
    \/ AclTxConnectionRequest
    \/ AclTxConnectionResponse
    \/ AclTxDisconnectionResponse
    \/ AclRxConnectionRequest
    \/ AclRxConnectionResponse
    \/ AclRxDisconnectionResponse

L2capSpec == Init /\ [][L2capNext]_vars

\* Longer streams of frames, all on the link session of one handle.
OneHandle == {h \in Handles : \A g \in Handles : h <= g}

ChannelTxConnectionRequest ==
    npackets < MaxChannelPackets /\ AclTxConnectionRequestOn(OneHandle)

ChannelTxConnectionResponse ==
    npackets < MaxChannelPackets /\ AclTxConnectionResponseOn(OneHandle)

ChannelTxDisconnectionResponse ==
    npackets < MaxChannelPackets /\ AclTxDisconnectionResponseOn(OneHandle)

ChannelRxConnectionRequest ==
    npackets < MaxChannelPackets /\ AclRxConnectionRequestOn(OneHandle)

ChannelRxConnectionResponse ==
    npackets < MaxChannelPackets /\ AclRxConnectionResponseOn(OneHandle)

ChannelRxDisconnectionResponse ==
    npackets < MaxChannelPackets /\ AclRxDisconnectionResponseOn(OneHandle)

ChannelNext ==
    \/ ChannelTxConnectionRequest
    \/ ChannelTxConnectionResponse
    \/ ChannelTxDisconnectionResponse
    \/ ChannelRxConnectionRequest
    \/ ChannelRxConnectionResponse
    \/ ChannelRxDisconnectionResponse

ChannelSpec == Init /\ [][ChannelNext]_vars

(***************************************************************************)
(* Remote names and the report.  A string is the sequence of its code      *)
(* points.                                                                 *)
(***************************************************************************)
\* The bytes of the remote-name field: NUL and the letter A.
NameBytes == {0, 65}

\* The remote-name fields a name event carries (a field of fixed size,
\* padded with NULs).
RemoteNames == [1..NameLen -> NameBytes]

\* str::trim_end_matches(char::from(0))
RECURSIVE String_trim_end_nul(_)
String_trim_end_nul(s) ==
    IF s # <<>> /\ s[Len(s)] = 0 THEN String_trim_end_nul(SubSeq(s, 1, Len(s) - 1)) ELSE s

Process_RemoteNameRequestComplete(r, address, success, remote_name) ==
    IF ~success THEN r
    ELSE LET name == String_trim_end_nul(String_from_utf8_lossy(remote_name))
         IN Rule_report_address_type(Rule_report_name(r, address, name), address, "BREDR")

RemoteNameRequestComplete ==
    \E address \in PacketAddrs, success \in BOOLEAN, remote_name \in RemoteNames,
       ts \in NextTs :
        Commit(Process_RemoteNameRequestComplete(Rule, address, success, remote_name),
               [Packet("RemoteNameRequestComplete", address, 0, success, FALSE, ts)
                   EXCEPT !.pending_before = "none"])

\* Ordering: the outcome of a comparison.
Ord_cmp(x, y) == IF x < y THEN "Less" ELSE IF x > y THEN "Greater" ELSE "Equal"

\* bool::cmp: false < true.
Bool_cmp(x, y) == IF x = y THEN "Equal" ELSE IF y THEN "Less" ELSE "Greater"

\* #[derive(PartialOrd, Ord)] on AddressType: the order of the variants'
\* declaration.
AddressType_discriminant(t) ==
    IF t = "None" THEN 0 ELSE IF t = "BREDR" THEN 1 ELSE IF t = "LE" THEN 2 ELSE 3

AddressType_cmp(a, b) == Ord_cmp(AddressType_discriminant(a), AddressType_discriminant(b))

\* String::cmp compares the UTF-8 bytes, which orders strings as their code
\* points do.
RECURSIVE String_cmp(_, _)
String_cmp(s, t) ==
    IF s = <<>> /\ t = <<>> THEN "Equal"
    ELSE IF s = <<>> THEN "Less"
    ELSE IF t = <<>> THEN "Greater"
    ELSE IF Head(s) # Head(t) THEN Ord_cmp(Head(s), Head(t))
    ELSE String_cmp(Tail(s), Tail(t))

\* The 48-bit value of the address the model calls `a`: the more significant
\* octet grows with a and the least significant one falls.
Address_value(a) == 256 * a + (NumAddrs + 1 - a)

\* u64::to_le_bytes(v)[i]
RECURSIVE U64_le_byte(_, _)
U64_le_byte(v, i) == IF i = 0 THEN v % 256 ELSE U64_le_byte(v \div 256, i - 1)

\* <[u8; 6]>::from(Address): the little-endian octets, indexed from 0.
Address_to_bytes(a) == [i \in 0..5 |-> U64_le_byte(Address_value(a), i)]

\* Debug for str: the string between quotes, NUL written as \0.
RECURSIVE Str_escape_debug(_)
Str_escape_debug(s) ==
    IF s = <<>> THEN <<>>
    ELSE (IF Head(s) = 0 THEN <<92, 48>> ELSE <<Head(s)>>) \o Str_escape_debug(Tail(s))

Str_debug(s) == <<34>> \o Str_escape_debug(s) \o <<34>>

\* Debug for HashSet<String>: {"a", "b"}, the entries in the iteration order
\* `ord` of the set.
RECURSIVE HashSet_debug_entries(_)
HashSet_debug_entries(ord) ==
    IF ord = <<>> THEN <<>>
    ELSE IF Len(ord) = 1 THEN Str_debug(ord[1])
    ELSE Str_debug(ord[1]) \o <<44, 32>> \o HashSet_debug_entries(Tail(ord))

HashSet_debug(ord) == <<123>> \o HashSet_debug_entries(ord) \o <<125>>

\* "<Unknown name>"
UnknownName == <<60, 85, 110, 107, 110, 111, 119, 110, 32, 110, 97, 109, 101, 62>>

\* DeviceInformation::print_names; `ord` enumerates the names in the
\* iteration order of the set.
Device_print_names(names, ord) ==
    IF Cardinality(names) > 1 THEN HashSet_debug(ord)
    ELSE IF ord # <<>> THEN ord[1]
    ELSE UnknownName

\* The loop over the address octets, from index i down to 0.
RECURSIVE Address_cmp_from(_, _, _)
Address_cmp_from(a_address, b_address, i) ==
    IF i < 0 THEN "Equal"
    ELSE IF a_address[i] # b_address[i] THEN Ord_cmp(a_address[i], b_address[i])
    ELSE Address_cmp_from(a_address, b_address, i - 1)

\* Mutant of sort_addresses: the kind of address is not compared.
sort_addresses_skips_type(a, b, a_ord, b_ord) ==
    LET a_empty == a.acls["BREDR"] = <<>> /\ a.acls["LE"] = <<>>
        b_empty == b.acls["BREDR"] = <<>> /\ b.acls["LE"] = <<>>
        connection_order == Bool_cmp(a_empty, b_empty)
        known_name_order == Bool_cmp(a.names = {}, b.names = {})
        name_order == String_cmp(Device_print_names(a.names, a_ord),
                                 Device_print_names(b.names, b_ord))
    IN IF connection_order # "Equal" THEN connection_order
       ELSE IF known_name_order # "Equal" THEN known_name_order
       ELSE IF name_order # "Equal" THEN name_order
       ELSE Address_cmp_from(Address_to_bytes(a.address), Address_to_bytes(b.address), 5)

\* sort_addresses(a, b); a_ord and b_ord are the iteration orders of the two
\* name sets.
sort_addresses(a, b, a_ord, b_ord) ==
    LET a_empty == a.acls["BREDR"] = <<>> /\ a.acls["LE"] = <<>>
        b_empty == b.acls["BREDR"] = <<>> /\ b.acls["LE"] = <<>>
        connection_order == Bool_cmp(a_empty, b_empty)
        known_name_order == Bool_cmp(a.names = {}, b.names = {})
        address_type_order == AddressType_cmp(a.address_type, b.address_type)
        name_order == String_cmp(Device_print_names(a.names, a_ord),
                                 Device_print_names(b.names, b_ord))
    IN IF connection_order # "Equal" THEN connection_order
       ELSE IF known_name_order # "Equal" THEN known_name_order
       ELSE IF address_type_order # "Equal" THEN address_type_order
       ELSE IF name_order # "Equal" THEN name_order
       ELSE Address_cmp_from(Address_to_bytes(a.address), Address_to_bytes(b.address), 5)

\* addresses.sort_unstable_by(sort_addresses): the addresses taken one by
\* one, each put before the first one it is less than.
RECURSIVE Sort_insert(_, _, _, _)
Sort_insert(sorted, address, devs, name_orders) ==
    IF sorted = <<>> THEN <<address>>
    ELSE IF sort_addresses(devs[address], devs[Head(sorted)],
                           name_orders[address], name_orders[Head(sorted)]) = "Less"
    THEN <<address>> \o sorted
    ELSE <<Head(sorted)>> \o Sort_insert(Tail(sorted), address, devs, name_orders)

RECURSIVE Sort_unstable_by(_, _, _)
Sort_unstable_by(addresses, devs, name_orders) ==
    IF addresses = <<>> THEN <<>>
    ELSE Sort_insert(Sort_unstable_by(SubSeq(addresses, 1, Len(addresses) - 1),
                                      devs, name_orders),
                     addresses[Len(addresses)], devs, name_orders)

\* Display for DeviceInformation: num_connections = self.acls.len(), the
\* number of keys of the map from transport to session list.
Device_num_connections(self) == Cardinality(DOMAIN self.acls)

\* InformationalRule::report: what is written, block by block.  `keys`,
\* `unknown_order` and `name_orders` are the iteration orders of the device
\* map, of the unknown-session bucket and of each device's name set.
Rule_report(r, keys, unknown_order, name_orders) ==
    IF DOMAIN r.devices = {} /\ DOMAIN r.unknown_connections = {} THEN <<>>
    ELSE LET addresses == Sort_unstable_by(keys, r.devices, name_orders)
         IN <<[block |-> "title"]>>
            \o (IF DOMAIN r.unknown_connections # {}
                THEN <<[block |-> "unknown",
                        connections |-> Cardinality(DOMAIN r.unknown_connections),
                        acls |-> [i \in 1..Len(unknown_order) |->
                                     r.unknown_connections[unknown_order[i]]]]>>
                ELSE <<>>)
            \o [i \in 1..Len(addresses) |->
                   [block |-> "device",
                    address |-> addresses[i],
                    device |-> r.devices[addresses[i]],
                    device_names |-> Device_print_names(r.devices[addresses[i]].names,
                                                        name_orders[addresses[i]]),
                    num_connections |-> Device_num_connections(r.devices[addresses[i]])]]

\* The iteration orders of the name sets of the devices.
NameOrders ==
    {f \in [DOMAIN devices -> UNION {Orders(devices[a].names) : a \in DOMAIN devices}] :
        \A a \in DOMAIN devices : f[a] \in Orders(devices[a].names)}

\* Mutant of report: the unknown sessions are taken out as they are written.
Report_takes_unknown ==
    \E keys \in Orders(DOMAIN devices), unknown_order \in Orders(DOMAIN unknown_connections),
       name_orders \in NameOrders :
        /\ pkt' = [kind |-> "Report", addr |-> 0, handle |-> 0, success |-> TRUE,
                   power_off |-> FALSE, ts |-> pkt.ts, pending_before |-> "none",
                   written |-> Rule_report(Rule, keys, unknown_order, name_orders)]
        /\ unknown_connections' = EmptyMap
        /\ UNCHANGED <<devices, handles, sco_handles, pending_disconnections,
                       npackets, nbytes, hist, handle_hist, power_off_hist, dispatcher, admin>>

\* A call of report between two packets.  It takes &self: the rule is left
\* as it is, and the call is no packet.
Report ==
    \E keys \in Orders(DOMAIN devices), unknown_order \in Orders(DOMAIN unknown_connections),
       name_orders \in NameOrders :
        /\ pkt' = [kind |-> "Report", addr |-> 0, handle |-> 0, success |-> TRUE,
                   power_off |-> FALSE, ts |-> pkt.ts, pending_before |-> "none",
                   written |-> Rule_report(Rule, keys, unknown_order, name_orders)]
        /\ UNCHANGED <<devices, handles, sco_handles, unknown_connections,
                       pending_disconnections, npackets, nbytes, hist, handle_hist, power_off_hist,
                       dispatcher, admin>>

\* The packets that give devices their sessions, names and address types,
\* and the report.
ReportNext ==
    \/ npackets < MaxReportPackets /\ ConnectionComplete
    \/ npackets < MaxReportPackets /\ LeConnectionComplete
    \/ npackets < MaxReportPackets /\ DisconnectionComplete
    \/ npackets < MaxReportPackets /\ CreateConnection
    \/ npackets < MaxReportPackets /\ RemoteNameRequestComplete
    \/ Report

ReportSpec == Init /\ [][ReportNext]_vars

(***************************************************************************)
(* The places where process can panic: the assertion of                    *)
(* DeviceInformation::get_or_allocate_connection, the unwrap of an Option  *)
(* that is None, the index of a map by a key it does not hold and the      *)
(* slice of a buffer out of its range.  For each function that has such a  *)
(* place, the condition under which a call reaches it and panics.          *)
(***************************************************************************)
\* DeviceInformation::get_or_allocate_connection: assert_ne!(transport,
\* Unknown); self.acls[&transport] and acls.get_mut(&transport).unwrap();
\* last_mut().unwrap() of the list after the push.
Device_get_or_allocate_connection_panics(self, handle, transport) ==
    \/ transport = "Unknown"
    \/ transport \notin DOMAIN self.acls
    \/ Device_get_or_allocate_connection(self, handle, transport).acls[transport] = <<>>

\* DeviceInformation::report_connection_start: self.acl_state[&transport]
\* and acls.get_mut(&transport).unwrap(), behind the early return.
Device_report_connection_start_panics(self, transport) ==
    /\ transport # "Unknown"
    /\ \/ transport \notin DOMAIN self.acl_state
       \/ transport \notin DOMAIN self.acls

\* DeviceInformation::report_connection_end: self.acls[&transport] for the
\* two transports of the loop (last().unwrap() is behind the emptiness test
\* of is_connection_active).
Device_report_connection_end_panics(self) ==
    \E transport \in {"BREDR", "LE"} : transport \notin DOMAIN self.acls

\* InformationalRule::get_or_allocate_connection: the unwraps of
\* get_or_allocate_unknown_connection and get_or_allocate_device follow an
\* insert; what is left is the call into the device.
Rule_get_or_allocate_connection_panics(r, handle, transport) ==
    /\ handle \in DOMAIN r.handles
    /\ transport # "Unknown"
    /\ LET address == r.handles[handle]
           r1 == Rule_get_or_allocate_device(r, address)
       IN Device_get_or_allocate_connection_panics(r1.devices[address], handle, transport)

\* InformationalRule::report_connection_start.
Rule_report_connection_start_panics(r, address, transport) ==
    Device_report_connection_start_panics(
        Rule_get_or_allocate_device(r, address).devices[address], transport)

\* InformationalRule::report_sco_connection_start.
Rule_report_sco_connection_start_panics(r, address) ==
    /\ address \in DOMAIN r.devices
    /\ \/ "BREDR" \notin DOMAIN r.devices[address].acls
       \/ /\ Device_is_connection_active(r.devices[address], "BREDR")
          /\ Device_get_or_allocate_connection_panics(r.devices[address], 0, "BREDR")

\* InformationalRule::report_connection_end: self.sco_handles[&handle] is
\* behind contains_key; self.devices.get_mut(address).unwrap() is not.
Rule_report_connection_end_panics(r, handle) ==
    IF handle \in DOMAIN r.sco_handles
    THEN Rule_get_or_allocate_connection_panics(r, r.sco_handles[handle], "BREDR")
    ELSE /\ handle \in DOMAIN r.handles
         /\ \/ r.handles[handle] \notin DOMAIN r.devices
            \/ Device_report_connection_end_panics(r.devices[r.handles[handle]])

\* The loop of InformationalRule::report_reset.
RECURSIVE ResetLoop_panics(_, _, _, _)
ResetLoop_panics(r, handles_, ts, ord) ==
    /\ handles_ # <<>>
    /\ \/ Rule_report_connection_end_panics(r, Head(handles_))
       \/ ResetLoop_panics(Rule_report_connection_end(r, Head(handles_), ts, ord),
                           Tail(handles_), ts, ord)

\* GapData::parse: bytes[2..] needs 2 <= len, bytes[2..(data_size + 1)]
\* needs 2 <= data_size + 1 <= len; bytes[0] and bytes[1] are read behind
\* the length tests.
GapData_parse_panics(bytes) ==
    /\ Len(bytes) >= 2
    /\ IF bytes[1] = 0 THEN 2 > Len(bytes)
       ELSE /\ bytes[1] <= Len(bytes) - 1
            /\ GapDataType_try_from(bytes[2]) # <<>>
            /\ ~(2 <= bytes[1] + 1 /\ bytes[1] + 1 <= Len(bytes))

\* The loop of process_raw_gap_data from `offset` on: &data[offset..] needs
\* offset <= len, and parse is called on the slice.
RECURSIVE Rule_process_raw_gap_data_panics(_, _)
Rule_process_raw_gap_data_panics(data, offset) ==
    /\ offset < Len(data)
    /\ \/ GapData_parse_panics(SubSeq(data, offset + 1, Len(data)))
       \/ LET gap_data == GapData_parse(SubSeq(data, offset + 1, Len(data)))
          IN /\ gap_data.ok
             /\ Rule_process_raw_gap_data_panics(data, GapAdvance(offset, gap_data))

\* InformationalRule::process on packet p in rule state r: TRUE iff the call
\* panics.  A Reset visits the handles in some order and a teardown drains
\* the active profiles in some order: the call panics if it does for one.
Process_panics(r, p) ==
    CASE p.kind = "ConnectionComplete" ->
             \/ Rule_report_connection_start_panics(r, p.addr, "BREDR")
             \/ /\ ~p.success
                /\ Rule_report_connection_end_panics(
                       Rule_report_connection_start(r, p.addr, p.handle, "BREDR", p.ts),
                       p.handle)
      [] p.kind = "SynchronousConnectionComplete" ->
             \/ Rule_report_sco_connection_start_panics(r, p.addr)
             \/ /\ ~p.success
                /\ Rule_report_connection_end_panics(
                       Rule_report_sco_connection_start(r, p.addr, p.handle, p.ts),
                       p.handle)
      [] p.kind = "DisconnectionComplete" ->
             /\ ~(p.handle \in DOMAIN r.pending_disconnections
                  /\ r.pending_disconnections[p.handle])
             /\ Rule_report_connection_end_panics(r, p.handle)
      [] p.kind \in {"LeConnectionComplete", "LeEnhancedConnectionComplete"} ->
             /\ p.success
             /\ Rule_report_connection_start_panics(r, p.addr, "LE")
      [] p.kind = "Reset" ->
             \E ord \in Orders(ProfileIds), hord \in Orders(Handles) :
                 ResetLoop_panics(r, DrainOrder(DOMAIN r.handles, hord), p.ts, ord)
      [] p.kind = "Disconnect" ->
             /\ p.power_off
             /\ Rule_report_connection_end_panics(r, p.handle)
      [] p.kind \in {"AclTxConnectionRequest", "AclRxConnectionRequest",
                     "AclTxDisconnectionResponse", "AclRxDisconnectionResponse"} ->
             Rule_get_or_allocate_connection_panics(r, p.handle, "BREDR")
      [] p.kind \in {"AclTxConnectionResponse", "AclRxConnectionResponse"} ->
             /\ p.result # "Pending"
             /\ Rule_get_or_allocate_connection_panics(r, p.handle, "BREDR")
      [] p.kind \in {"ExtendedInquiryResult", "LeAdvertisingReport",
                     "LeExtendedAdvertisingReport"} ->
             \E i \in 1..Len(p.responses) :
                 Rule_process_raw_gap_data_panics(p.responses[i].advertising_data, 0)
      [] OTHER -> FALSE

\* A scan: packets of every kind the rule matches, in any order; the packets
\* with advertising payloads, whose handlers read and write nothing but the
\* names and the address types, come among the first MaxScanGapPackets.
ScanNext ==
    \/ npackets < MaxScanPackets /\ ConnectionComplete
    \/ npackets < MaxScanPackets /\ SynchronousConnectionComplete
    \/ npackets < MaxScanPackets /\ DisconnectionComplete
    \/ npackets < MaxScanPackets /\ LeConnectionComplete
    \/ npackets < MaxScanPackets /\ LeEnhancedConnectionComplete
    \/ npackets < MaxScanPackets /\ Reset
    \/ npackets < MaxScanPackets /\ CreateConnection
    \/ npackets < MaxScanPackets /\ AcceptConnectionRequest
    \/ npackets < MaxScanPackets /\ Disconnect
    \/ npackets < MaxScanPackets /\ RemoteNameRequestComplete
    \/ npackets < MaxScanGapPackets /\ ExtendedInquiryResult
    \/ npackets < MaxScanGapPackets /\ LeAdvertisingReport
    \/ npackets < MaxScanGapPackets /\ LeExtendedAdvertisingReport
    \/ npackets < MaxScanPackets /\ AclTxConnectionRequest
    \/ npackets < MaxScanPackets /\ AclTxConnectionResponse
    \/ npackets < MaxScanPackets /\ AclTxDisconnectionResponse
    \/ npackets < MaxScanPackets /\ AclRxConnectionRequest
    \/ npackets < MaxScanPackets /\ AclRxConnectionResponse
    \/ npackets < MaxScanPackets /\ AclRxDisconnectionResponse

ScanSpec == Init /\ [][ScanNext]_vars

(***************************************************************************)
(* make_message_dispatcher: the closure and the tasks it spawns.  The      *)
(* engine of the rule is left alone by all of it.                          *)
(***************************************************************************)
DispatcherCommit(d2) ==
    /\ dispatcher' = d2
    /\ UNCHANGED <<devices, handles, sco_handles, unknown_connections,
                   pending_disconnections, pkt, npackets, nbytes, hist, handle_hist, power_off_hist,
                   admin>>

\* A call of the closure with cb: push_back under the lock of the queue,
\* then spawn; the task starts at lock().await.
Dispatch(cb) ==
    /\ Len(dispatcher.called) < MaxCalls
    /\ DispatcherCommit([dispatcher EXCEPT
           !.dispatch_queue = Append(@, cb),
           !.tasks = Append(@, [pc |-> "lock", cb |-> 0]),
           !.called = Append(@, cb)])

\* Mutant of the task's lock: the task goes on whether the async mutex is
\* held or not.
TaskLock_not_exclusive(t) ==
    /\ dispatcher.tasks[t].pc = "lock"
    /\ DispatcherCommit([dispatcher EXCEPT
           !.async_mutex = t,
           !.tasks[t].pc = "pop",
           !.lock_order = Append(@, t)])

\* let _guard = async_mutex.lock().await: the task gets the mutex when it is
\* free.  Which of the waiting tasks asked first is up to the runtime's
\* threads: any of them may get it.
TaskLock(t) ==
    /\ dispatcher.tasks[t].pc = "lock"
    /\ dispatcher.async_mutex = 0
    /\ DispatcherCommit([dispatcher EXCEPT
           !.async_mutex = t,
           !.tasks[t].pc = "pop",
           !.lock_order = Append(@, t)])

\* dispatch_queue.lock().unwrap().pop_front().unwrap(): the front of the
\* queue, or a panic of the task (which drops the guard) on an empty queue.
TaskPop(t) ==
    /\ dispatcher.tasks[t].pc = "pop"
    /\ IF dispatcher.dispatch_queue = <<>>
       THEN DispatcherCommit([dispatcher EXCEPT
                !.tasks[t].pc = "panicked",
                !.async_mutex = IF @ = t THEN 0 ELSE @])
       ELSE DispatcherCommit([dispatcher EXCEPT
                !.tasks[t] = [pc |-> "send", cb |-> Head(dispatcher.dispatch_queue)],
                !.dispatch_queue = Tail(@)])

\* let _ = tx.send(f(cb)).await, then the guard is dropped: the send waits
\* while the channel is full, fails (the message is dropped, the error
\* ignored) when the receiver is closed, and else puts the message into the
\* channel.
TaskSend(t) ==
    /\ dispatcher.tasks[t].pc = "send"
    /\ dispatcher.receiver_closed \/ Len(dispatcher.channel) < ChannelCapacity
    /\ DispatcherCommit([dispatcher EXCEPT
           !.channel = IF dispatcher.receiver_closed THEN @
                       ELSE Append(@, Message_f(dispatcher.tasks[t].cb)),
           !.sent = IF dispatcher.receiver_closed THEN @
                    ELSE Append(@, Message_f(dispatcher.tasks[t].cb)),
           !.tasks[t].pc = "done",
           !.async_mutex = IF @ = t THEN 0 ELSE @])

\* The main loop takes a message from the channel: rx.recv().
Receive ==
    /\ dispatcher.channel # <<>>
    /\ DispatcherCommit([dispatcher EXCEPT !.channel = Tail(@)])

\* The receiver is closed or dropped: the sends from then on fail.
CloseReceiver ==
    /\ ~dispatcher.receiver_closed
    /\ DispatcherCommit([dispatcher EXCEPT !.receiver_closed = TRUE])

DispatcherNext ==
    \/ \E cb \in Cbs : Dispatch(cb)
    \/ \E t \in 1..Len(dispatcher.tasks) : TaskLock(t)
    \/ \E t \in 1..Len(dispatcher.tasks) : TaskPop(t)
    \/ \E t \in 1..Len(dispatcher.tasks) : TaskSend(t)
    \/ Receive
    \/ CloseReceiver

DispatcherSpec == Init /\ [][DispatcherNext]_vars

(***************************************************************************)
(* BluetoothAdminPolicyHelper and BluetoothAdmin.                          *)
(***************************************************************************)
\* The uuid lists of the calls: Vec<Uuid>, duplicates and order kept.
UuidLists == UNION {[1..n -> Uuids] : n \in 0..MaxUuidsLen}

\* services.into_iter().collect::<HashSet<Uuid>>().
HashSet_from(services) == {services[i] : i \in 1..Len(services)}

BluetoothAdminPolicyHelper_is_service_allowed(self, service) ==
    self.allowed_services = {} \/ service \in self.allowed_services

\* Mutant of the helper's set_allowed_services: the services are added to
\* the allowlist.
BluetoothAdminPolicyHelper_set_allowed_services_extends(self, services) ==
    LET set == self.allowed_services \cup HashSet_from(services)
    IN IF self.allowed_services # set
       THEN [helper |-> [self EXCEPT !.allowed_services = set], changed |-> TRUE]
       ELSE [helper |-> self, changed |-> FALSE]

\* BluetoothAdminPolicyHelper::set_allowed_services: the helper after the
\* call and the value returned.
BluetoothAdminPolicyHelper_set_allowed_services(self, services) ==
    LET set == HashSet_from(services)
    IN IF self.allowed_services # set
       THEN [helper |-> [self EXCEPT !.allowed_services = set], changed |-> TRUE]
       ELSE [helper |-> self, changed |-> FALSE]

\* remote_uuids.iter().filter(|uu| !is_service_allowed(uu)).cloned().collect().
RECURSIVE BluetoothAdminPolicyHelper_get_blocked_services(_, _)
BluetoothAdminPolicyHelper_get_blocked_services(self, remote_uuids) ==
    IF remote_uuids = <<>> THEN <<>>
    ELSE (IF ~BluetoothAdminPolicyHelper_is_service_allowed(self, Head(remote_uuids))
          THEN <<Head(remote_uuids)>> ELSE <<>>)
         \o BluetoothAdminPolicyHelper_get_blocked_services(self, Tail(remote_uuids))

\* UuidHelper::is_known_profile(uuid).map_or(false, is_profile_supported):
\* the uuids of the profiles the adapter supports.
SupportedProfileUuids == {u \in Uuids : u = 1}

BluetoothAdmin_get_affected_status(blocked_services) ==
    \E i \in 1..Len(blocked_services) : blocked_services[i] \in SupportedProfileUuids

\* BluetoothAdmin::new_device_policy_effect on Some(uuids).
BluetoothAdmin_new_device_policy_effect(self, uuids) ==
    LET service_blocked ==
            BluetoothAdminPolicyHelper_get_blocked_services(self.admin_helper, uuids)
    IN <<[service_blocked |-> service_blocked,
          affected |-> BluetoothAdmin_get_affected_status(service_blocked)]>>

\* callbacks.for_all_callbacks(|cb| cb.on_device_policy_effect_changed(device,
\* effect)): every registered callback is told; with none registered nobody is.
Callbacks_on_device_policy_effect_changed(self, device, effect) ==
    IF self.callbacks = {} THEN self
    ELSE [self EXCEPT !.notified = MapInsert(@, device, effect)]

\* BluetoothAdmin::on_device_found: insert(device, None) replaces the entry
\* and returns the old one; the closure of or_else runs when there was none.
BluetoothAdmin_on_device_found(self, remote_device) ==
    LET inserted == [self EXCEPT !.device_policy_affect_cache =
                                     MapInsert(@, remote_device, <<>>)]
    IN IF remote_device \in DOMAIN self.device_policy_affect_cache THEN inserted
       ELSE Callbacks_on_device_policy_effect_changed(inserted, remote_device, <<>>)

BluetoothAdmin_on_device_cleared(self, remote_device) ==
    [self EXCEPT !.device_policy_affect_cache = MapRemove(@, remote_device)]

BluetoothAdmin_on_device_uuid_changed(self, remote_device, new_uuids) ==
    LET new_effect == BluetoothAdmin_new_device_policy_effect(self, new_uuids)
    IN IF \/ remote_device \notin DOMAIN self.device_policy_affect_cache
          \/ self.device_policy_affect_cache[remote_device] # new_effect
       THEN [Callbacks_on_device_policy_effect_changed(self, remote_device, new_effect)
                EXCEPT !.device_policy_affect_cache =
                           MapInsert(@, remote_device, new_effect)]
       ELSE self

\* The loop of set_allowed_services over a clone of the cache, the devices
\* taken in the order `order`.
RECURSIVE BluetoothAdmin_refresh_effects(_, _, _)
BluetoothAdmin_refresh_effects(self, cache, order) ==
    IF order = <<>> THEN self
    ELSE LET device == Head(order)
             new_effect ==
                 BluetoothAdmin_new_device_policy_effect(self, self.remote_uuids[device])
             self1 ==
                 IF new_effect # cache[device]
                 THEN [Callbacks_on_device_policy_effect_changed(self, device, new_effect)
                          EXCEPT !.device_policy_affect_cache =
                                     MapInsert(@, device, new_effect)]
                 ELSE self
         IN BluetoothAdmin_refresh_effects(self1, cache, Tail(order))

\* impl IBluetoothAdmin for BluetoothAdmin :: set_allowed_services.  The
\* write of the config file succeeds or fails (write_ok); the order of the
\* uuids collected from the HashSet and the order of the cache's devices are
\* the iteration orders `allowed_order` and `order`.
BluetoothAdmin_set_allowed_services(self, services, write_ok, allowed_order, order) ==
    LET set == BluetoothAdminPolicyHelper_set_allowed_services(self.admin_helper, services)
    IN IF ~set.changed THEN self
       ELSE LET self1 == [self EXCEPT !.admin_helper = set.helper,
                                      !.config = IF write_ok THEN <<allowed_order>> ELSE @,
                                      !.allowlist_notified =
                                          IF self.callbacks = {} THEN @
                                          ELSE <<allowed_order>>]
            IN BluetoothAdmin_refresh_effects(self1, self1.device_policy_affect_cache, order)

\* A call of the admin object; the rule's engine and the dispatcher are left
\* alone.
AdminCommit(a2, call) ==
    /\ admin.ncalls < MaxAdminCalls
    /\ admin' = [a2 EXCEPT !.call = call,
                           !.ncalls = admin.ncalls + 1,
                           !.unheard = @ \/ admin.callbacks = {}]
    /\ UNCHANGED <<devices, handles, sco_handles, unknown_connections,
                   pending_disconnections, pkt, npackets, nbytes, hist, handle_hist, power_off_hist,
                   dispatcher>>

\* register_admin_policy_callback / unregister_admin_policy_callback of the
\* one client.
RegisterAdminPolicyCallback ==
    /\ admin.callbacks = {}
    /\ admin.ncalls < MaxAdminCalls
    /\ admin' = [admin EXCEPT !.callbacks = {1},
                              !.call = [kind |-> "register_admin_policy_callback"],
                              !.ncalls = @ + 1]
    /\ UNCHANGED <<devices, handles, sco_handles, unknown_connections,
                   pending_disconnections, pkt, npackets, nbytes, hist, handle_hist, power_off_hist,
                   dispatcher>>

UnregisterAdminPolicyCallback ==
    /\ admin.callbacks # {}
    /\ admin.ncalls < MaxAdminCalls
    /\ admin' = [admin EXCEPT !.callbacks = {},
                              !.call = [kind |-> "unregister_admin_policy_callback"],
                              !.ncalls = @ + 1]
    /\ UNCHANGED <<devices, handles, sco_handles, unknown_connections,
                   pending_disconnections, pkt, npackets, nbytes, hist, handle_hist, power_off_hist,
                   dispatcher>>

\* handle_action(AdminActions::OnDeviceFound(remote_device)).
OnDeviceFound ==
    \E remote_device \in RemoteDevices :
        AdminCommit(BluetoothAdmin_on_device_found(admin, remote_device),
                    [kind |-> "on_device_found", device |-> remote_device])

\* handle_action(AdminActions::OnDeviceCleared(remote_device)).
OnDeviceCleared ==
    \E remote_device \in RemoteDevices :
        AdminCommit(BluetoothAdmin_on_device_cleared(admin, remote_device),
                    [kind |-> "on_device_cleared", device |-> remote_device])

\* The adapter learns the uuids of a remote device, and
\* handle_action(AdminActions::OnDeviceUuidChanged(remote_device)) reads them
\* with get_remote_uuids.
OnDeviceUuidChanged ==
    \E remote_device \in RemoteDevices, new_uuids \in UuidLists :
        AdminCommit(BluetoothAdmin_on_device_uuid_changed(
                        [admin EXCEPT !.remote_uuids[remote_device] = new_uuids],
                        remote_device, new_uuids),
                    [kind |-> "on_device_uuid_changed", device |-> remote_device,
                     uuids |-> new_uuids])

SetAllowedServices ==
    \E services \in UuidLists, write_ok \in BOOLEAN :
        \E allowed_order \in Orders(HashSet_from(services)),
           order \in Orders(DOMAIN admin.device_policy_affect_cache) :
            AdminCommit(BluetoothAdmin_set_allowed_services(admin, services, write_ok,
                                                            allowed_order, order),
                        [kind |-> "set_allowed_services", services |-> services,
                         before |-> admin.admin_helper.allowed_services])

AdminNext ==
    \/ RegisterAdminPolicyCallback
    \/ UnregisterAdminPolicyCallback
    \/ OnDeviceFound
    \/ OnDeviceCleared
    \/ OnDeviceUuidChanged
    \/ SetAllowedServices

AdminSpec == Init /\ [][AdminNext]_vars

(***************************************************************************)
(* Sessions of a rule state.  A session of a device is named by            *)
(* <<address, transport, index>>: the lists only grow, so the name is      *)
(* stable.                                                                 *)
(***************************************************************************)
DeviceSessions(r) ==
    UNION {{<<a, t, i>> : i \in 1..Len(r.devices[a].acls[t])} :
              a \in DOMAIN r.devices, t \in Transports}

AclAt(r, s) == r.devices[s[1]].acls[s[2]][s[3]]

AllAcls(r) ==
    {AclAt(r, s) : s \in DeviceSessions(r)} \cup
    {r.unknown_connections[h] : h \in DOMAIN r.unknown_connections}

IsOpen(acl) == acl.end_time = INVALID_TS

\* The packet kinds that can run report_connection_end.
IsTeardown(p) ==
    \/ p.kind \in {"DisconnectionComplete", "Reset"}
    \/ p.kind = "Disconnect" /\ p.power_off
    \/ p.kind \in {"ConnectionComplete", "SynchronousConnectionComplete"} /\ ~p.success

(***************************************************************************)
(* C1: every (device, transport) has at most one session whose end         *)
(* timestamp is still the sentinel.                                        *)
(***************************************************************************)
C1_AtMostOneActive ==
    \A a \in DOMAIN devices : \A t \in Transports :
        Cardinality({i \in 1..Len(devices[a].acls[t]) : IsOpen(devices[a].acls[t][i])}) <= 1

(***************************************************************************)
(* C2: when a step ends a session (its end timestamp was the sentinel, or  *)
(* the session did not exist, and is set after the step), the session's    *)
(* active-profile map is empty after the step and every profile that was   *)
(* active before is in the ended list with the session's end timestamp and *)
(* end initiator.                                                          *)
(***************************************************************************)
ProfilesEndedWith(pre_active, post) ==
    /\ DOMAIN post.active_profiles = {}
    /\ \A id \in DOMAIN pre_active :
           \E j \in 1..Len(post.inactive_profiles) :
               post.inactive_profiles[j] =
                   [pre_active[id] EXCEPT !.end_time = post.end_time,
                                          !.end_initiator = post.end_initiator]

C2_Step(r, r2) ==
    /\ \A s \in DeviceSessions(r2) :
           LET existed == s \in DeviceSessions(r)
           IN (existed => IsOpen(AclAt(r, s))) /\ ~IsOpen(AclAt(r2, s)) =>
                  ProfilesEndedWith(IF existed THEN AclAt(r, s).active_profiles ELSE EmptyMap,
                                    AclAt(r2, s))
    /\ \A h \in DOMAIN r2.unknown_connections :
           LET existed == h \in DOMAIN r.unknown_connections
           IN (existed => IsOpen(r.unknown_connections[h]))
              /\ ~IsOpen(r2.unknown_connections[h]) =>
                  ProfilesEndedWith(IF existed THEN r.unknown_connections[h].active_profiles
                                    ELSE EmptyMap,
                                    r2.unknown_connections[h])

C3_EndNotBeforeStart ==
    \A acl \in AllAcls(Rule) :
        acl.start_time # INVALID_TS /\ acl.end_time # INVALID_TS =>
            acl.end_time >= acl.start_time

\* A session that started and ended at a later timestamp, and one that
\* started and ended at the same timestamp.
C3_Witness ==
    /\ \E acl \in AllAcls(Rule) :
           acl.start_time # INVALID_TS /\ acl.end_time # INVALID_TS
           /\ acl.end_time > acl.start_time
    /\ \E acl \in AllAcls(Rule) :
           acl.start_time # INVALID_TS /\ acl.end_time = acl.start_time

(***************************************************************************)
(* Connection-complete packets.                                            *)
(***************************************************************************)
\* The session report_connection_start pushed for packet p.
StartedAcl(r, p) == Last(r.devices[p.addr].acls[StartTransport(p)])

CmdInitiator(last_cmd) == IF last_cmd = "Create" THEN "Host" ELSE "Peer"

(***************************************************************************)
(* C4, as stated: a success ConnectionComplete for A whose latest          *)
(* connection-establishing command for A is CreateConnection (or           *)
(* AcceptConnectionRequest) opens a BR/EDR session with start initiator    *)
(* Host (Peer), start timestamp the event's and no end timestamp.          *)
(***************************************************************************)
C4_Original ==
    pkt.kind = "ConnectionComplete" /\ pkt.success /\ hist[pkt.addr].last_cmd # "None" =>
        /\ StartedAcl(Rule, pkt).start_initiator = CmdInitiator(hist[pkt.addr].last_cmd)
        /\ StartedAcl(Rule, pkt).start_time = pkt.ts
        /\ StartedAcl(Rule, pkt).end_time = INVALID_TS

(***************************************************************************)
(* C4, amended: the same, for the first ConnectionComplete for A since the *)
(* command when no BR/EDR session of A was ended since the command.        *)
(***************************************************************************)
C4_InitiatorFromCommand ==
    /\ pkt.kind = "ConnectionComplete" /\ pkt.success
    /\ hist[pkt.addr].last_cmd # "None"
    /\ hist[pkt.addr].cc["BREDR"] = 1
    /\ ~hist[pkt.addr].ended
    => /\ StartedAcl(Rule, pkt).start_initiator = CmdInitiator(hist[pkt.addr].last_cmd)
       /\ StartedAcl(Rule, pkt).start_time = pkt.ts
       /\ StartedAcl(Rule, pkt).end_time = INVALID_TS
       /\ StartedAcl(Rule, pkt).transport = "BREDR"

\* CreateConnection(A) then the first success ConnectionComplete for A.
C4_Witness ==
    /\ pkt.kind = "ConnectionComplete" /\ pkt.success
    /\ hist[pkt.addr].last_cmd = "Create"
    /\ hist[pkt.addr].cc["BREDR"] = 1
    /\ ~hist[pkt.addr].ended
    /\ StartedAcl(Rule, pkt).start_initiator = "Host"

(***************************************************************************)
(* C5, as stated: a connection-complete event (of any kind) for a device   *)
(* and transport that already had one since the latest connection-         *)
(* establishing command for the device opens a session with start          *)
(* initiator Unknown.                                                      *)
(***************************************************************************)
C5_Original ==
    StartTransport(pkt) # "None" /\ hist[pkt.addr].cc[StartTransport(pkt)] = 2 =>
        StartedAcl(Rule, pkt).start_initiator = "Unknown"

(***************************************************************************)
(* C5, amended: that holds of ConnectionComplete (BR/EDR); a further LE or *)
(* LE-enhanced connection-complete gets start initiator Host again.        *)
(***************************************************************************)
C5_ConsumedOnce ==
    /\ pkt.kind = "ConnectionComplete" /\ hist[pkt.addr].cc["BREDR"] = 2 =>
           StartedAcl(Rule, pkt).start_initiator = "Unknown"
    /\ StartTransport(pkt) = "LE" /\ hist[pkt.addr].cc["LE"] = 2 =>
           StartedAcl(Rule, pkt).start_initiator = "Host"

\* A command, a ConnectionComplete that used it, the teardown of that
\* session, and a second ConnectionComplete.
C5_Witness ==
    /\ pkt.kind = "ConnectionComplete" /\ pkt.success
    /\ hist[pkt.addr].last_cmd # "None"
    /\ hist[pkt.addr].cc["BREDR"] = 2
    /\ hist[pkt.addr].ended
    /\ LET acls == devices[pkt.addr].acls["BREDR"]
       IN /\ Len(acls) = 2
          /\ acls[1].start_initiator = CmdInitiator(hist[pkt.addr].last_cmd)
          /\ acls[1].end_time # INVALID_TS
          /\ acls[2].start_initiator = "Unknown"

PreAcl(r, s) == IF s \in DeviceSessions(r) THEN AclAt(r, s) ELSE AclInformation_new(0, s[2])

PreUnknown(r, h) ==
    IF h \in DOMAIN r.unknown_connections THEN r.unknown_connections[h]
    ELSE AclInformation_new(h, "Unknown")

\* The step wrote the end of the session.
EndedNow(pre, post) ==
    /\ ~IsOpen(post)
    /\ pre.end_time # post.end_time \/ pre.end_initiator # post.end_initiator

\* The end initiators of the profiles the step added, ended, to the ended list.
NewEndedProfiles(pre, post) ==
    {post.inactive_profiles[j].end_initiator :
        j \in {k \in 1..Len(post.inactive_profiles) :
                  /\ k > Len(pre.inactive_profiles)
                  /\ post.inactive_profiles[k].end_time # INVALID_TS}}

\* A pending-teardown entry for h exists when packet p tears h down: the
\* Disconnect command has just recorded one, a ConnectionComplete has just
\* removed it, otherwise it is the entry of the state before.
PendingAtTeardown(r, p, h) ==
    \/ p.kind = "Disconnect" /\ h = p.handle
    \/ /\ h \in DOMAIN r.pending_disconnections
       /\ ~(p.kind = "ConnectionComplete" /\ h = p.handle)

Expected(r, p, h) == IF PendingAtTeardown(r, p, h) THEN "Host" ELSE "Peer"

C7_Acl(r, p, pre, post) ==
    /\ EndedNow(pre, post) =>
           post.end_initiator = Expected(r, p, IF p.kind = "Reset" THEN post.handle ELSE p.handle)
    /\ \A initiator \in NewEndedProfiles(pre, post) :
           IF p.kind = "Reset"
           THEN \E h \in DOMAIN r.handles : initiator = Expected(r, p, h)
           ELSE initiator = Expected(r, p, p.handle)

C7_Step(r, r2, p) ==
    IsTeardown(p) =>
        /\ \A s \in DeviceSessions(r2) : C7_Acl(r, p, PreAcl(r, s), AclAt(r2, s))
        /\ \A h \in DOMAIN r2.unknown_connections :
               C7_Acl(r, p, PreUnknown(r, h), r2.unknown_connections[h])

ActiveOn(r, h, t) ==
    /\ h \in DOMAIN r.handles
    /\ LET acls == r.devices[r.handles[h]].acls[t]
       IN acls # <<>> /\ IsOpen(Last(acls)) /\ Last(acls).handle = h

\* The sessions a teardown of h can be meant to end.
ActiveFor(r, h) ==
    {<<r.handles[h], t, Len(r.devices[r.handles[h]].acls[t])>> :
        t \in {u \in Transports : ActiveOn(r, h, u)}}

\* The teardown of h ended the session of h (of BR/EDR if both transports
\* have one) at ts as `initiator`, changed no other session of any device
\* and removed h from the handle map.
TornDown(r, r2, h, ts, initiator) ==
    LET a == r.handles[h]
        t == IF ActiveOn(r, h, "BREDR") THEN "BREDR" ELSE "LE"
        n == Len(r.devices[a].acls[t])
    IN /\ DOMAIN r2.devices = DOMAIN r.devices
       /\ \A s \in DeviceSessions(r2) :
              /\ s \in DeviceSessions(r)
              /\ s # <<a, t, n>> => AclAt(r2, s) = AclAt(r, s)
       /\ AclAt(r2, <<a, t, n>>).end_time = ts
       /\ AclAt(r2, <<a, t, n>>).end_initiator = initiator
       /\ AclAt(r2, <<a, t, n>>).start_time = AclAt(r, <<a, t, n>>).start_time
       /\ h \notin DOMAIN r2.handles

(***************************************************************************)
(* C8, as stated: a Disconnect command whose reason is not power-off       *)
(* changes no session, and the DisconnectionComplete that finds its        *)
(* pending entry ends the open session of the handle at the event's        *)
(* timestamp as Host.                                                      *)
(***************************************************************************)
C8_Step_Original(r, r2, p) ==
    /\ p.kind = "Disconnect" /\ ~p.power_off =>
           r2.devices = r.devices /\ r2.unknown_connections = r.unknown_connections
    /\ p.kind = "DisconnectionComplete" /\ p.pending_before = "other"
       /\ ActiveFor(r, p.handle) # {} =>
           \E s \in ActiveFor(r, p.handle) :
               /\ AclAt(r2, s).end_time = p.ts
               /\ AclAt(r2, s).end_initiator = "Host"

C8_Step(r, r2, p) ==
    /\ p.kind = "Disconnect" /\ ~p.power_off =>
           /\ r2.devices = r.devices /\ r2.unknown_connections = r.unknown_connections
           /\ r2.handles = r.handles /\ r2.sco_handles = r.sco_handles
           /\ p.handle \in DOMAIN r2.pending_disconnections
           /\ ~r2.pending_disconnections[p.handle]
    /\ p.kind = "DisconnectionComplete" /\ p.pending_before = "other"
       /\ p.handle \notin DOMAIN r.sco_handles
       /\ ActiveFor(r, p.handle) # {} =>
           /\ TornDown(r, r2, p.handle, p.ts, "Host")
           /\ p.handle \notin DOMAIN r2.pending_disconnections

C9_Step_Original(r, r2, p) ==
    p.kind = "Disconnect" /\ p.power_off /\ ActiveFor(r, p.handle) # {} =>
        \E s \in ActiveFor(r, p.handle) :
            /\ AclAt(r2, s).end_time = p.ts
            /\ AclAt(r2, s).end_initiator = "Host"

C9_Step(r, r2, p) ==
    p.kind = "Disconnect" /\ p.power_off
    /\ p.handle \notin DOMAIN r.sco_handles
    /\ ActiveFor(r, p.handle) # {} =>
        /\ TornDown(r, r2, p.handle, p.ts, "Host")
        /\ p.handle \in DOMAIN r2.pending_disconnections
        /\ r2.pending_disconnections[p.handle]

C10_Step(r, r2, p) ==
    p.kind = "Reset" =>
        \A h \in DOMAIN r.handles : \A s \in ActiveFor(r, h) :
            /\ AclAt(r2, s).end_time = p.ts
            /\ AclAt(r2, s).end_initiator = "Host"

C10_ResetEndsAsHost == [][C10_Step(Rule, Rule', pkt')]_vars

(***************************************************************************)
(* C11: right after a Reset the handle map, the synchronous-link map and   *)
(* the pending-teardown map are all empty.                                 *)
(***************************************************************************)
C11_ResetClearsMaps ==
    pkt.kind = "Reset" =>
        /\ DOMAIN handles = {}
        /\ DOMAIN sco_handles = {}
        /\ DOMAIN pending_disconnections = {}

(***************************************************************************)
(* Failed connection-complete events.                                      *)
(***************************************************************************)
\* The transport of the connection-complete kind of packet p.
EventTransport(p) == IF p.kind = "ConnectionComplete" THEN "BREDR" ELSE "LE"

IsConnectionComplete(p) ==
    p.kind \in {"ConnectionComplete", "LeConnectionComplete", "LeEnhancedConnectionComplete"}

\* The sessions of transport t address a has in r (none if a is no device).
AclsOf(r, a, t) == IF a \in DOMAIN r.devices THEN r.devices[a].acls[t] ELSE <<>>

\* Packet p was recorded as a zero-duration session of its device and
\* transport t: one session more, started and ended at the packet's
\* timestamp, and every session of the device that is open afterwards was
\* open before.
ZeroDuration(r, r2, p, t) ==
    /\ p.addr \in DOMAIN r2.devices
    /\ Len(AclsOf(r2, p.addr, t)) = Len(AclsOf(r, p.addr, t)) + 1
    /\ Last(AclsOf(r2, p.addr, t)).start_time = p.ts
    /\ Last(AclsOf(r2, p.addr, t)).end_time = p.ts
    /\ Last(AclsOf(r2, p.addr, t)).handle = p.handle
    /\ Last(AclsOf(r2, p.addr, t)).transport = t
    /\ \A s \in DeviceSessions(r2) :
           s[1] = p.addr /\ IsOpen(AclAt(r2, s)) =>
               s \in DeviceSessions(r) /\ IsOpen(AclAt(r, s))

(***************************************************************************)
(* C12, as stated: a connection-complete event of any of the three kinds   *)
(* with non-success status is recorded as a zero-duration session of its   *)
(* device and transport.                                                   *)
(***************************************************************************)
C12_Step_Original(r, r2, p) ==
    IsConnectionComplete(p) /\ ~p.success => ZeroDuration(r, r2, p, EventTransport(p))

C12_Original == [][C12_Step_Original(Rule, Rule', pkt')]_vars

(***************************************************************************)
(* C12, amended: that holds of a ConnectionComplete whose handle is not a  *)
(* tracked synchronous-link handle (the session ends as Peer and the       *)
(* handle is not left in the handle map); an LE or LE-enhanced             *)
(* connection-complete with non-success status changes nothing.            *)
(***************************************************************************)
C12_Step(r, r2, p) ==
    /\ p.kind = "ConnectionComplete" /\ ~p.success /\ p.handle \notin DOMAIN r.sco_handles =>
           /\ ZeroDuration(r, r2, p, "BREDR")
           /\ Last(AclsOf(r2, p.addr, "BREDR")).end_initiator = "Peer"
           /\ p.handle \notin DOMAIN r2.handles
    /\ p.kind \in {"LeConnectionComplete", "LeEnhancedConnectionComplete"} /\ ~p.success =>
           r2 = r

C12_FailedAttempt == [][C12_Step(Rule, Rule', pkt')]_vars

\* A failed ConnectionComplete at a timestamp later than 0 left, as the only
\* session of its device, one that starts and ends at its timestamp.
C12_Witness ==
    /\ pkt.kind = "ConnectionComplete" /\ ~pkt.success
    /\ pkt.ts > 0
    /\ pkt.handle \notin DOMAIN sco_handles
    /\ devices[pkt.addr].acls["LE"] = <<>>
    /\ Len(devices[pkt.addr].acls["BREDR"]) = 1
    /\ Last(devices[pkt.addr].acls["BREDR"]).start_time = pkt.ts
    /\ Last(devices[pkt.addr].acls["BREDR"]).end_time = pkt.ts

(***************************************************************************)
(* C13: a success connection-complete event for handle h leaves h mapped   *)
(* to the event's address and no pending-teardown entry for h; and a       *)
(* DisconnectionComplete for h that comes after it with no Disconnect      *)
(* command for h in between gives Peer to every session and profile it     *)
(* ends, also when a Disconnect for h was pending at the                   *)
(* connection-complete.                                                    *)
(***************************************************************************)
C13_Acl(pre, post) ==
    /\ EndedNow(pre, post) => post.end_initiator = "Peer"
    /\ NewEndedProfiles(pre, post) \subseteq {"Peer"}

C13_Step(r, r2, p, hh) ==
    /\ StartTransport(p) # "None" /\ p.success =>
           /\ p.handle \in DOMAIN r2.handles
           /\ r2.handles[p.handle] = p.addr
           /\ p.handle \notin DOMAIN r2.pending_disconnections
    /\ \A h \in Handles : hh[h] # "none" => h \notin DOMAIN r2.pending_disconnections
    /\ p.kind = "DisconnectionComplete" /\ hh[p.handle] # "none" =>
           /\ \A s \in DeviceSessions(r2) : C13_Acl(PreAcl(r, s), AclAt(r2, s))
           /\ \A h \in DOMAIN r2.unknown_connections :
                  C13_Acl(PreUnknown(r, h), r2.unknown_connections[h])

C13_StartDropsPending == [][C13_Step(Rule, Rule', pkt', handle_hist')]_vars

\* A Disconnect for h, a success ConnectionComplete for h that found its
\* pending entry, and the DisconnectionComplete for h, which has just ended
\* the session as Peer.
C13_Witness ==
    /\ pkt.kind = "DisconnectionComplete"
    /\ handle_hist[pkt.handle] = "cc_after_disconnect"
    /\ \E s \in DeviceSessions(Rule) :
           /\ AclAt(Rule, s).handle = pkt.handle
           /\ AclAt(Rule, s).start_time # INVALID_TS
           /\ AclAt(Rule, s).end_time = pkt.ts
           /\ AclAt(Rule, s).end_initiator = "Peer"

(***************************************************************************)
(* Synchronous links.                                                      *)
(***************************************************************************)
\* Address a is a device whose latest BR/EDR session is open.
HasOpenBredr(r, a) ==
    a \in DOMAIN r.devices /\ Device_is_connection_active(r.devices[a], "BREDR")

(***************************************************************************)
(* C14: a SynchronousConnectionComplete for an address that is no device,  *)
(* or a device without an open BR/EDR session, changes nothing, whatever   *)
(* its status: no device, session, profile, unknown-bucket entry or map    *)
(* entry.                                                                  *)
(***************************************************************************)
C14_Step(r, r2, p) ==
    p.kind = "SynchronousConnectionComplete" /\ ~HasOpenBredr(r, p.addr) => r2 = r

C14_ScoIgnored == [][C14_Step(Rule, Rule', pkt')]_vars

\* The HFP profile record report_sco_connection_start starts at ts.
HfpStarted(ts) ==
    [ProfileInformation_new("Hfp", OnePerConnection("Hfp")) EXCEPT
        !.start_time = ts, !.start_initiator = "Host"]

\* The latest BR/EDR session of address a.
LastBredr(r, a) == Last(r.devices[a].acls["BREDR"])

(***************************************************************************)
(* C15, as stated: a SynchronousConnectionComplete for a device with an    *)
(* open BR/EDR session leaves on that session an active HFP profile keyed  *)
(* one-per-link, started at the event's timestamp as Host, and maps the    *)
(* synchronous handle to the handle of that session.                       *)
(***************************************************************************)
C15_Step_Original(r, r2, p) ==
    p.kind = "SynchronousConnectionComplete" /\ HasOpenBredr(r, p.addr) =>
        /\ OnePerConnection("Hfp") \in DOMAIN LastBredr(r2, p.addr).active_profiles
        /\ LastBredr(r2, p.addr).active_profiles[OnePerConnection("Hfp")] = HfpStarted(p.ts)
        /\ p.handle \in DOMAIN r2.sco_handles
        /\ r2.sco_handles[p.handle] = LastBredr(r, p.addr).handle

C15_Step(r, r2, p) ==
    p.kind = "SynchronousConnectionComplete" /\ HasOpenBredr(r, p.addr) =>
        /\ p.handle \in DOMAIN r2.sco_handles
        /\ r2.sco_handles[p.handle] = LastBredr(r, p.addr).handle
        /\ p.success =>
               /\ LastBredr(r2, p.addr) =
                      [LastBredr(r, p.addr) EXCEPT
                          !.active_profiles = MapInsert(@, OnePerConnection("Hfp"),
                                                        HfpStarted(p.ts)),
                          !.inactive_profiles = LastBredr(r2, p.addr).inactive_profiles]
               /\ Len(r2.devices[p.addr].acls["BREDR"]) = Len(r.devices[p.addr].acls["BREDR"])

C16_Step(r, r2, p) ==
    p.kind = "DisconnectionComplete" /\ p.pending_before # "power_off"
    /\ p.handle \in DOMAIN r.sco_handles
    /\ r.sco_handles[p.handle] \in DOMAIN r.handles
    /\ HasOpenBredr(r, r.handles[r.sco_handles[p.handle]]) =>
        LET owner == r.handles[r.sco_handles[p.handle]]
        IN /\ IsOpen(LastBredr(r2, owner))
           /\ OnePerConnection("Hfp") \notin DOMAIN LastBredr(r2, owner).active_profiles
           /\ \E j \in 1..Len(LastBredr(r2, owner).inactive_profiles) :
                  /\ LastBredr(r2, owner).inactive_profiles[j].profile_type = "Hfp"
                  /\ LastBredr(r2, owner).inactive_profiles[j].end_time = p.ts
           /\ \A s \in DOMAIN r2.sco_handles : r2.sco_handles[s] # r.sco_handles[p.handle]

C16_ScoTeardown == [][C16_Step(Rule, Rule', pkt')]_vars

(***************************************************************************)
(* C17: a DisconnectionComplete for a handle that is no tracked            *)
(* synchronous-link handle and is mapped to a device that has an open      *)
(* session carrying the handle ends such a session at the event's          *)
(* timestamp and removes the handle from the handle map.                   *)
(***************************************************************************)
\* The open sessions of the device handle h is mapped to that carry h.
OpenCarrying(r, h) ==
    {s \in DeviceSessions(r) :
        s[1] = r.handles[h] /\ IsOpen(AclAt(r, s)) /\ AclAt(r, s).handle = h}

C17_Step(r, r2, p) ==
    p.kind = "DisconnectionComplete" /\ p.pending_before # "power_off"
    /\ p.handle \notin DOMAIN r.sco_handles
    /\ p.handle \in DOMAIN r.handles
    /\ OpenCarrying(r, p.handle) # {} =>
        /\ \E s \in OpenCarrying(r, p.handle) : AclAt(r2, s).end_time = p.ts
        /\ p.handle \notin DOMAIN r2.handles

C17_TeardownEndsSession == [][C17_Step(Rule, Rule', pkt')]_vars

(***************************************************************************)
(* C18, as stated: a DisconnectionComplete for a handle that is in neither *)
(* the handle map nor the synchronous-link map leaves under that handle in *)
(* the unknown-session bucket a session ended at the event's timestamp,    *)
(* and creates or changes no device.                                       *)
(***************************************************************************)
C18_Step_Original(r, r2, p) ==
    p.kind = "DisconnectionComplete"
    /\ p.handle \notin DOMAIN r.handles /\ p.handle \notin DOMAIN r.sco_handles =>
        /\ p.handle \in DOMAIN r2.unknown_connections
        /\ r2.unknown_connections[p.handle].end_time = p.ts
        /\ r2.devices = r.devices

C18_Original == [][C18_Step_Original(Rule, Rule', pkt')]_vars

(***************************************************************************)
(* C18, amended: that holds unless the pending-teardown entry of the       *)
(* handle is one of a power-off Disconnect; then the event records         *)
(* nothing.  The end initiator is Host if a pending entry exists, Peer     *)
(* otherwise, and the other entries of the bucket are unchanged.           *)
(***************************************************************************)
C18_Step(r, r2, p) ==
    p.kind = "DisconnectionComplete"
    /\ p.handle \notin DOMAIN r.handles /\ p.handle \notin DOMAIN r.sco_handles =>
        /\ r2.devices = r.devices
        /\ r2.handles = r.handles /\ r2.sco_handles = r.sco_handles
        /\ p.handle \notin DOMAIN r2.pending_disconnections
        /\ IF p.pending_before = "power_off"
           THEN r2.unknown_connections = r.unknown_connections
           ELSE /\ DOMAIN r2.unknown_connections = DOMAIN r.unknown_connections \cup {p.handle}
                /\ r2.unknown_connections[p.handle] =
                       [PreUnknown(r, p.handle) EXCEPT
                           !.end_time = p.ts,
                           !.end_initiator = IF p.pending_before = "other"
                                             THEN "Host" ELSE "Peer"]
                /\ \A h \in DOMAIN r.unknown_connections :
                       h # p.handle => r2.unknown_connections[h] = r.unknown_connections[h]

C18_UnknownTeardown == [][C18_Step(Rule, Rule', pkt')]_vars

\* Scenario F: the DisconnectionComplete is for a handle no packet named
\* before; the bucket holds its session and no device exists.
C18_Witness ==
    /\ pkt.kind = "DisconnectionComplete"
    /\ pkt.pending_before = "none"
    /\ npackets = 1
    /\ DOMAIN devices = {}
    /\ DOMAIN unknown_connections = {pkt.handle}
    /\ unknown_connections[pkt.handle].end_time = pkt.ts
    /\ unknown_connections[pkt.handle].start_time = INVALID_TS
    /\ unknown_connections[pkt.handle].transport = "Unknown"

(***************************************************************************)
(* C19: no step removes an entry of the unknown-session bucket, and a      *)
(* connection-complete event that maps a handle filed in the bucket to an  *)
(* address appends a new session to the device (with success status: an    *)
(* open one that holds nothing but the event's handle, transport,          *)
(* timestamp and start initiator) and leaves the bucket entry of the       *)
(* handle unchanged.                                                       *)
(***************************************************************************)
C19_Step(r, r2, p) ==
    /\ DOMAIN r.unknown_connections \subseteq DOMAIN r2.unknown_connections
    /\ StartTransport(p) # "None" /\ p.handle \in DOMAIN r.unknown_connections =>
           LET t == StartTransport(p)
               acl == Last(AclsOf(r2, p.addr, t))
           IN /\ r2.unknown_connections[p.handle] = r.unknown_connections[p.handle]
              /\ Len(AclsOf(r2, p.addr, t)) = Len(AclsOf(r, p.addr, t)) + 1
              /\ acl.handle = p.handle
              /\ acl.start_time = p.ts
              /\ p.success =>
                     /\ acl = Acl_report_start(AclInformation_new(p.handle, t),
                                               acl.start_initiator, p.ts)
                     /\ r2.handles[p.handle] = p.addr

C19_BucketNeverMerged == [][C19_Step(Rule, Rule', pkt')]_vars

\* A session was filed under h in the bucket at an earlier timestamp, and a
\* success connection-complete has just mapped h to an address.
C19_Witness ==
    /\ StartTransport(pkt) # "None" /\ pkt.success
    /\ pkt.handle \in DOMAIN unknown_connections
    /\ unknown_connections[pkt.handle].end_time < pkt.ts
    /\ handles[pkt.handle] = pkt.addr
    /\ IsOpen(StartedAcl(Rule, pkt))
    /\ StartedAcl(Rule, pkt).start_time = pkt.ts

(***************************************************************************)
(* The lattice of AddressType: None below BREDR and LE, Dual above both.   *)
(***************************************************************************)
LatticeLeq(x, y) == x = y \/ x = "None" \/ y = "Dual"

\* The least upper bound of x and y.
LatticeJoin(x, y) ==
    CHOOSE z \in AddressTypes :
        /\ LatticeLeq(x, z) /\ LatticeLeq(y, z)
        /\ \A w \in AddressTypes :
               LatticeLeq(x, w) /\ LatticeLeq(y, w) => LatticeLeq(z, w)

C20_Algebra ==
    /\ AddressType_update("BREDR", "LE") = "Dual"
    /\ AddressType_update("LE", "BREDR") = "Dual"
    /\ \A x \in AddressTypes :
           /\ AddressType_update(x, x) = x
           /\ AddressType_update("None", x) = x
           /\ AddressType_update("Dual", x) = "Dual"
    /\ \A x, y \in AddressTypes :
           /\ AddressType_update(x, y) = AddressType_update(y, x)
           /\ AddressType_update(x, y) = LatticeJoin(x, y)

C20_Step(r, r2) ==
    \A a \in DOMAIN r.devices :
        /\ a \in DOMAIN r2.devices
        /\ LatticeLeq(r.devices[a].address_type, r2.devices[a].address_type)

(***************************************************************************)
(* C20: AddressType::update is commutative, idempotent and the join of the *)
(* lattice (update(BREDR, LE) = update(LE, BREDR) = Dual, update(x, x) =   *)
(* x, update(None, x) = x, update(Dual, x) = Dual), and no step moves the  *)
(* AddressType of a device down the lattice.                               *)
(***************************************************************************)
C20_MergeIsJoin == [][C20_Algebra /\ C20_Step(Rule, Rule')]_vars

\* A device that had an LE session got BREDR merged in by a command and is
\* Dual, while another device is LE.
C20_Witness ==
    /\ pkt.kind \in {"CreateConnection", "AcceptConnectionRequest"}
    /\ devices[pkt.addr].acls["LE"] # <<>>
    /\ devices[pkt.addr].address_type = "Dual"
    /\ \E a \in DOMAIN devices : devices[a].address_type = "LE"

(***************************************************************************)
(* Advertising / inquiry payloads of the packet processed last.            *)
(***************************************************************************)
IsReport(p) ==
    p.kind \in {"ExtendedInquiryResult", "LeAdvertisingReport", "LeExtendedAdvertisingReport"}

Payloads(p) == {p.responses[i].advertising_data : i \in 1..Len(p.responses)}

\* The buffers the loop can hand to the parser: the suffixes of a payload
\* (the empty one included).
Suffixes(d) == {SubSeq(d, k, Len(d)) : k \in 1..(Len(d) + 1)}

(***************************************************************************)
(* C21: GapData::parse fails on an empty buffer; succeeds on a one-byte    *)
(* buffer iff the byte is 0; on a longer buffer with length byte n >= 1 it *)
(* fails if n > length - 1, fails if the second byte is no type code, and  *)
(* otherwise yields the second byte as type and the n - 1 bytes after it   *)
(* as payload.                                                             *)
(***************************************************************************)
C21_Classified(b) ==
    LET g == GapData_parse(b)
    IN /\ Len(b) = 0 => ~g.ok
       /\ Len(b) = 1 => (g.ok <=> b[1] = 0)
       /\ Len(b) >= 2 /\ b[1] >= 1 =>
              IF b[1] > Len(b) - 1 THEN ~g.ok
              ELSE IF ~GapDataType_try_from(b[2]).ok THEN ~g.ok
              ELSE /\ g.ok
                   /\ g.data_type = b[2]
                   /\ g.data = [i \in 1..(b[1] - 1) |-> b[2 + i]]

C21_ParseClassifies ==
    IsReport(pkt) => \A d \in Payloads(pkt) : \A b \in Suffixes(d) : C21_Classified(b)

\* A payload of four bytes that starts with a record holding a one-byte
\* name, and a suffix of it that fails for its length.
C21_Witness ==
    /\ IsReport(pkt)
    /\ \E d \in Payloads(pkt) :
           /\ Len(d) = 4
           /\ GapData_parse(d).ok
           /\ GapData_parse(d).data_type = 9
           /\ GapData_parse(d).data = <<d[3]>>
           /\ \E b \in Suffixes(d) : Len(b) >= 2 /\ b[1] > Len(b) - 1 /\ ~GapData_parse(b).ok

(***************************************************************************)
(* C22, as stated: on a buffer of two or more bytes whose length byte is 0 *)
(* GapData::parse succeeds with an empty payload.                          *)
(***************************************************************************)
C22_Original ==
    IsReport(pkt) =>
        \A d \in Payloads(pkt) : \A b \in Suffixes(d) :
            Len(b) >= 2 /\ b[1] = 0 =>
                GapData_parse(b).ok /\ GapData_parse(b).data = <<>>

(***************************************************************************)
(* C22, amended: it succeeds with the placeholder type Invalid and, as     *)
(* payload, every byte after the second one, so that the loop moves to the *)
(* end of the buffer and decodes nothing after the sentinel.               *)
(***************************************************************************)
C22_Sentinel ==
    IsReport(pkt) =>
        \A d \in Payloads(pkt) :
            /\ \A b \in Suffixes(d) :
                   Len(b) >= 2 /\ b[1] = 0 =>
                       /\ GapData_parse(b).ok
                       /\ GapData_parse(b).data_type = 0
                       /\ GapData_parse(b).data = [i \in 1..(Len(b) - 2) |-> b[2 + i]]
            /\ \A i \in 1..Len(GapDecoded(d, 0)) :
                   d[GapDecoded(d, 0)[i].offset + 1] = 0 =>
                       /\ i = Len(GapDecoded(d, 0))
                       /\ GapAdvance(GapDecoded(d, 0)[i].offset, GapDecoded(d, 0)[i].gap_data)
                              >= Len(d)

\* A payload that starts with the length byte 0 and holds a name record
\* after the first two bytes: the loop decoded the sentinel alone.
C22_Witness ==
    /\ IsReport(pkt)
    /\ \E d \in Payloads(pkt) :
           /\ Len(d) = 4 /\ d[1] = 0
           /\ GapData_parse(SubSeq(d, 3, 4)).ok
           /\ GapData_parse(SubSeq(d, 3, 4)).data_type = 9
           /\ Len(GapDecoded(d, 0)) = 1
           /\ GapDecoded(d, 0)[1].gap_data.data = SubSeq(d, 3, 4)

(***************************************************************************)
(* C23: the loop decodes the records in order.  The first record is at     *)
(* offset 0; a record with length byte n >= 1 decoded at offset o covers   *)
(* the bytes [o, o + n + 1) of the payload - its type is the byte at       *)
(* o + 1, its payload the bytes [o + 2, o + n + 1) - and the next record   *)
(* is decoded at o + n + 1; after the last one the payload is used up or   *)
(* the record at o + n + 1 is malformed.  A sentinel record is the last.   *)
(***************************************************************************)
C23_Exact(d) ==
    LET recs == GapDecoded(d, 0)
    IN /\ recs # <<>> => recs[1].offset = 0
       /\ d # <<>> /\ recs = <<>> => ~GapData_parse(d).ok
       /\ \A i \in 1..Len(recs) :
              LET o == recs[i].offset
                  n == d[o + 1]
              IN IF n >= 1 /\ Len(d) - o >= 2
                 THEN /\ o + n + 1 <= Len(d)
                      /\ recs[i].gap_data.data_type = d[o + 2]
                      /\ recs[i].gap_data.data = [k \in 1..(n - 1) |-> d[o + 2 + k]]
                      /\ IF i < Len(recs) THEN recs[i + 1].offset = o + n + 1
                         ELSE \/ o + n + 1 = Len(d)
                              \/ ~GapData_parse(SubSeq(d, o + n + 2, Len(d))).ok
                 ELSE i = Len(recs)

C23_LoopIsExact == IsReport(pkt) => \A d \in Payloads(pkt) : C23_Exact(d)

\* A payload of two well-formed records, the second decoded at offset 2,
\* that uses the payload up.
C23_Witness ==
    /\ IsReport(pkt)
    /\ \E d \in Payloads(pkt) :
           /\ Len(d) = 4
           /\ Len(GapDecoded(d, 0)) = 2
           /\ GapDecoded(d, 0)[2].offset = 2
           /\ d[1] = 1 /\ d[3] = 1
           /\ GapDecoded(d, 0)[2].gap_data.data_type = 9

(***************************************************************************)
(* C24: what a report packet leaves.  The names a payload gives are those  *)
(* of its name records up to the first record that fails to parse (or the  *)
(* sentinel); the report adds them to the names of the response's address, *)
(* merges the address type of the report kind into every address of the    *)
(* report and changes nothing else: the state is the one the payloads cut  *)
(* at their failing records would leave.                                   *)
(***************************************************************************)
RECURSIVE NamesBeforeFailure(_, _)
NamesBeforeFailure(d, o) ==
    IF o >= Len(d) \/ Len(d) - o = 1 THEN {}
    ELSE LET n == d[o + 1]
         IN IF n = 0 \/ n > Len(d) - o - 1 \/ ~GapDataType_try_from(d[o + 2]).ok THEN {}
            ELSE (IF d[o + 2] \in {8, 9} THEN {[k \in 1..(n - 1) |-> d[o + 2 + k]]} ELSE {})
                 \cup NamesBeforeFailure(d, o + n + 1)

ReportAddresses(p) == {p.responses[i].address : i \in 1..Len(p.responses)}

ReportNames(p, a) ==
    UNION {NamesBeforeFailure(p.responses[i].advertising_data, 0) :
              i \in {j \in 1..Len(p.responses) : p.responses[j].address = a}}

ReportType(p) == IF p.kind = "ExtendedInquiryResult" THEN "BREDR" ELSE "LE"

C24_Step(r, r2, p) ==
    IsReport(p) =>
        r2 = [r EXCEPT !.devices =
                 [a \in DOMAIN r.devices \cup ReportAddresses(p) |->
                     LET d0 == IF a \in DOMAIN r.devices THEN r.devices[a]
                               ELSE DeviceInformation_new(a)
                     IN IF a \in ReportAddresses(p)
                        THEN [d0 EXCEPT !.names = @ \cup ReportNames(p, a),
                                        !.address_type = AddressType_update(@, ReportType(p))]
                        ELSE d0]]

C24_FailureStopsLoop == [][C24_Step(Rule, Rule', pkt')]_vars

\* A payload whose first record is a name and whose second record fails to
\* parse although a name record follows the failing byte: the first name is
\* recorded, the later one is not, and the address type is merged.
C24_Witness ==
    /\ IsReport(pkt)
    /\ Len(pkt.responses) = 1
    /\ LET d == pkt.responses[1].advertising_data
           a == pkt.responses[1].address
       IN /\ Len(d) = 4
          /\ Len(GapDecoded(d, 0)) = 1
          /\ GapDecoded(d, 0)[1].gap_data.data_type = 9
          /\ GapDecoded(d, 0)[1].gap_data.data = <<>>
          /\ ~GapData_parse(SubSeq(d, 3, 4)).ok
          /\ d[4] = 9
          /\ devices[a].names = {<<>>}
          /\ devices[a].address_type = ReportType(pkt)

(***************************************************************************)
(* L2CAP frames and the link session that owns them.                       *)
(***************************************************************************)
IsConnectionRequest(p) == p.kind \in {"AclTxConnectionRequest", "AclRxConnectionRequest"}

IsConnectionResponse(p) == p.kind \in {"AclTxConnectionResponse", "AclRxConnectionResponse"}

IsDisconnectionResponse(p) ==
    p.kind \in {"AclTxDisconnectionResponse", "AclRxDisconnectionResponse"}

IsL2cap(p) == IsConnectionRequest(p) \/ IsConnectionResponse(p) \/ IsDisconnectionResponse(p)

SentByHost(p) ==
    p.kind \in {"AclTxConnectionRequest", "AclTxConnectionResponse",
                "AclTxDisconnectionResponse"}

\* The side that sent the request a response answers: the receiver of the
\* response.
Requester(p) == IF SentByHost(p) THEN "Peer" ELSE "Host"

\* In a response the destination id is the channel end of the sender and the
\* source id the channel end of the receiver.
HostCid(p) == IF SentByHost(p) THEN p.destination_cid ELSE p.source_cid

PeerCid(p) == IF SentByHost(p) THEN p.source_cid ELSE p.destination_cid

\* The link session that owns a frame on `handle`: the latest BR/EDR session
\* of the device the handle is mapped to, or else the session filed under the
\* handle in the unknown-session bucket; a session the frame opens is empty.
OwningBefore(r, handle) ==
    IF handle \in DOMAIN r.handles
    THEN LET acls == r.devices[r.handles[handle]].acls["BREDR"]
         IN IF acls # <<>> /\ Last(acls).end_time = INVALID_TS
            THEN Last(acls) ELSE AclInformation_new(handle, "BREDR")
    ELSE IF handle \in DOMAIN r.unknown_connections
         THEN r.unknown_connections[handle] ELSE AclInformation_new(handle, "BREDR")

\* After the frame; a still-pending response opens no session.
OwningAfter(r2, handle) ==
    IF handle \in DOMAIN r2.handles
    THEN Last(r2.devices[r2.handles[handle]].acls["BREDR"])
    ELSE IF handle \in DOMAIN r2.unknown_connections
         THEN r2.unknown_connections[handle] ELSE AclInformation_new(handle, "BREDR")

\* The entry of a channel table, "none" when the id has no entry.
CidEntry(table, cid) == IF cid \in DOMAIN table THEN table[cid] ELSE <<"none">>

\* The request a response answers is pending: the requester's table holds
\* Pending for the requester's channel id.
PendingRequest(acl, p) ==
    IF Requester(p) = "Host" THEN CidEntry(acl.host_cids, HostCid(p))[1] = "Pending"
    ELSE CidEntry(acl.peer_cids, PeerCid(p))[1] = "Pending"

RequestedPsm(acl, p) ==
    IF Requester(p) = "Host" THEN acl.host_cids[HostCid(p)][2] ELSE acl.peer_cids[PeerCid(p)][2]

(***************************************************************************)
(* C25: a success response to a pending request sets, on the owning        *)
(* session, host table[host id] = Connected(peer id, service) and peer     *)
(* table[peer id] = Connected(host id, service), service being the one the *)
(* request declared; if the service maps to a profile type, the profile    *)
(* identified by (host id, peer id) is active afterwards, of that type,    *)
(* started at the response's timestamp by the side that sent the request.  *)
(***************************************************************************)
C25_Step(r, r2, p) ==
    IsConnectionResponse(p) /\ p.result = "Success"
    /\ PendingRequest(OwningBefore(r, p.handle), p) =>
        LET a == OwningBefore(r, p.handle)
            b == OwningAfter(r2, p.handle)
            psm == RequestedPsm(a, p)
            id == L2capCid(HostCid(p), PeerCid(p))
        IN /\ CidEntry(b.host_cids, HostCid(p)) = <<"Connected", PeerCid(p), psm>>
           /\ CidEntry(b.peer_cids, PeerCid(p)) = <<"Connected", HostCid(p), psm>>
           /\ IF ProfileType_from_psm(psm) # <<>>
              THEN /\ id \in DOMAIN b.active_profiles
                   /\ b.active_profiles[id].profile_type = ProfileType_from_psm(psm)[1]
                   /\ b.active_profiles[id].profile_id = id
                   /\ b.active_profiles[id].start_time = p.ts
                   /\ b.active_profiles[id].start_initiator = Requester(p)
                   /\ b.active_profiles[id].end_time = INVALID_TS
              ELSE b.active_profiles = a.active_profiles

C25_SuccessResponse == [][C25_Step(Rule, Rule', pkt')]_vars

\* The host asked for SDP on a link opened by a connection-complete event
\* and the peer's success response, at a later timestamp, started the
\* profile.
C25_Witness ==
    /\ pkt.kind = "AclRxConnectionResponse" /\ pkt.result = "Success"
    /\ pkt.handle \in DOMAIN handles
    /\ pkt.ts = MaxTs
    /\ LET b == OwningAfter(Rule, pkt.handle)
           id == L2capCid(pkt.source_cid, pkt.destination_cid)
       IN /\ b.start_time < pkt.ts
          /\ id \in DOMAIN b.active_profiles
          /\ b.active_profiles[id].profile_type = "Sdp"
          /\ b.active_profiles[id].start_time = pkt.ts
          /\ b.active_profiles[id].start_initiator = "Host"
          /\ b.host_cids[pkt.source_cid] = <<"Connected", pkt.destination_cid, 1>>

(***************************************************************************)
(* C26, as stated: a response to a pending request whose status is neither *)
(* success nor still-pending adds to the ended profiles of the owning      *)
(* session a record that starts and ends at the response's timestamp, and  *)
(* leaves no profile active for the pair.                                  *)
(***************************************************************************)
C26_Step_Original(r, r2, p) ==
    IsConnectionResponse(p) /\ p.result \notin {"Success", "Pending"}
    /\ PendingRequest(OwningBefore(r, p.handle), p) =>
        LET a == OwningBefore(r, p.handle)
            b == OwningAfter(r2, p.handle)
            id == L2capCid(HostCid(p), PeerCid(p))
        IN /\ Len(b.inactive_profiles) > Len(a.inactive_profiles)
           /\ Last(b.inactive_profiles).start_time = p.ts
           /\ Last(b.inactive_profiles).end_time = p.ts
           /\ id \notin DOMAIN b.active_profiles

C26_Original == [][C26_Step_Original(Rule, Rule', pkt')]_vars

(***************************************************************************)
(* C26, amended: the zero-duration profile is recorded only if the service *)
(* the pending request declared maps to a profile type: then the record    *)
(* (type of the service, identified by the pair, started and ended at the  *)
(* response's timestamp by the requester) is appended to the ended         *)
(* profiles, after the profile that was active for the pair if there was   *)
(* one, and no profile is active for the pair.  For a service with no      *)
(* profile type, and for a response with no pending request, the session   *)
(* is left as it was.  The channel tables never change.                    *)
(***************************************************************************)
C26_Step(r, r2, p) ==
    IsConnectionResponse(p) /\ p.result \notin {"Success", "Pending"} =>
        LET a == OwningBefore(r, p.handle)
            b == OwningAfter(r2, p.handle)
            id == L2capCid(HostCid(p), PeerCid(p))
        IN IF PendingRequest(a, p) /\ ProfileType_from_psm(RequestedPsm(a, p)) # <<>>
           THEN /\ b.inactive_profiles =
                       a.inactive_profiles
                       \o (IF id \in DOMAIN a.active_profiles
                           THEN <<a.active_profiles[id]>> ELSE <<>>)
                       \o <<[start_time |-> p.ts,
                             end_time |-> p.ts,
                             profile_type |-> ProfileType_from_psm(RequestedPsm(a, p))[1],
                             start_initiator |-> Requester(p),
                             end_initiator |-> Requester(p),
                             profile_id |-> id]>>
                /\ b.active_profiles = [k \in DOMAIN a.active_profiles \ {id} |->
                                           a.active_profiles[k]]
                /\ b.host_cids = a.host_cids
                /\ b.peer_cids = a.peer_cids
           ELSE b = a

C26_FailedResponse == [][C26_Step(Rule, Rule', pkt')]_vars

\* The peer refused the host's SDP request: the ended profiles of the
\* session hold the zero-duration record and the request stays pending.
C26_Witness ==
    /\ pkt.kind = "AclRxConnectionResponse" /\ pkt.result = "PsmNotSupported"
    /\ LET b == OwningAfter(Rule, pkt.handle)
       IN /\ b.inactive_profiles # <<>>
          /\ Last(b.inactive_profiles).profile_type = "Sdp"
          /\ Last(b.inactive_profiles).start_time = pkt.ts
          /\ Last(b.inactive_profiles).end_time = pkt.ts
          /\ b.active_profiles = EmptyMap
          /\ b.host_cids[pkt.source_cid] = <<"Pending", 1>>

(***************************************************************************)
(* C27: a disconnection response naming (host id, peer id) removes the     *)
(* host-table entry of host id and the peer-table entry of peer id and     *)
(* leaves the other entries.  The service is that of the removed host      *)
(* entry if it was Connected, else that of the removed peer entry if it    *)
(* was Connected; if the service maps to a profile type, the profile of    *)
(* the pair is ended at the response's timestamp (a record of that type is *)
(* made if none was active) and appended to the ended profiles.  If        *)
(* neither removed entry was Connected, the profiles are left as they were.*)
(***************************************************************************)
C27_Step(r, r2, p) ==
    IsDisconnectionResponse(p) =>
        LET a == OwningBefore(r, p.handle)
            b == OwningAfter(r2, p.handle)
            id == L2capCid(HostCid(p), PeerCid(p))
            host == CidEntry(a.host_cids, HostCid(p))
            peer == CidEntry(a.peer_cids, PeerCid(p))
            service == IF host[1] = "Connected" THEN <<host[3]>>
                       ELSE IF peer[1] = "Connected" THEN <<peer[3]>>
                       ELSE <<>>
        IN /\ b.host_cids = [c \in DOMAIN a.host_cids \ {HostCid(p)} |-> a.host_cids[c]]
           /\ b.peer_cids = [c \in DOMAIN a.peer_cids \ {PeerCid(p)} |-> a.peer_cids[c]]
           /\ IF service # <<>> /\ ProfileType_from_psm(service[1]) # <<>>
              THEN /\ id \notin DOMAIN b.active_profiles
                   /\ \A k \in DOMAIN a.active_profiles \ {id} :
                          k \in DOMAIN b.active_profiles
                          /\ b.active_profiles[k] = a.active_profiles[k]
                   /\ Len(b.inactive_profiles) = Len(a.inactive_profiles) + 1
                   /\ SubSeq(b.inactive_profiles, 1, Len(a.inactive_profiles))
                          = a.inactive_profiles
                   /\ Last(b.inactive_profiles).profile_id = id
                   /\ Last(b.inactive_profiles).end_time = p.ts
                   /\ IF id \in DOMAIN a.active_profiles
                      THEN Last(b.inactive_profiles).start_time
                               = a.active_profiles[id].start_time
                      ELSE Last(b.inactive_profiles).profile_type
                               = ProfileType_from_psm(service[1])[1]
              ELSE /\ b.active_profiles = a.active_profiles
                   /\ b.inactive_profiles = a.inactive_profiles

C27_DisconnectionResponse == [][C27_Step(Rule, Rule', pkt')]_vars

\* The disconnection response named the host id of an SDP channel and the
\* peer id of a channel of a service with no profile type (the two other
\* ends of those channels are still Connected): the host side won and an
\* SDP record for the pair was ended.
C27_Witness ==
    /\ IsDisconnectionResponse(pkt)
    /\ LET b == OwningAfter(Rule, pkt.handle)
       IN /\ \E c \in DOMAIN b.peer_cids : b.peer_cids[c] = <<"Connected", HostCid(pkt), 1>>
          /\ \E c \in DOMAIN b.host_cids : b.host_cids[c] = <<"Connected", PeerCid(pkt), 2>>
          /\ HostCid(pkt) \notin DOMAIN b.host_cids
          /\ PeerCid(pkt) \notin DOMAIN b.peer_cids
          /\ Len(b.inactive_profiles) = 1
          /\ b.inactive_profiles[1].profile_type = "Sdp"
          /\ b.inactive_profiles[1].profile_id = L2capCid(HostCid(pkt), PeerCid(pkt))
          /\ b.inactive_profiles[1].end_time = pkt.ts

(***************************************************************************)
(* C28, as stated: no frame moves a channel id of a session from Connected *)
(* to Pending, from Pending to removed, or from (none) to Connected.       *)
(***************************************************************************)
ForbiddenMove(before, after) ==
    \/ before[1] = "Connected" /\ after[1] = "Pending"
    \/ before[1] = "Pending" /\ after[1] = "none"
    \/ before[1] = "none" /\ after[1] = "Connected"

C28_Step_Original(r, r2, p) ==
    IsL2cap(p) =>
        LET a == OwningBefore(r, p.handle)
            b == OwningAfter(r2, p.handle)
        IN \A c \in Cids :
               /\ ~ForbiddenMove(CidEntry(a.host_cids, c), CidEntry(b.host_cids, c))
               /\ ~ForbiddenMove(CidEntry(a.peer_cids, c), CidEntry(b.peer_cids, c))

C28_Original == [][C28_Step_Original(Rule, Rule', pkt')]_vars

(***************************************************************************)
(* C28, amended: the channel tables of a session change only as follows.   *)
(* A request sets the entry of its source id in the table of the sending   *)
(* side to Pending(service), whatever the entry was (Connected included).  *)
(* A success response whose requester-side entry is Pending(service) sets  *)
(* host table[host id] and peer table[peer id] to Connected, whatever the  *)
(* responder-side entry was ((none) included).  A disconnection response   *)
(* removes both entries it names, whatever they were (Pending included).   *)
(* A still-pending response, a failed response and a response with no      *)
(* pending request change no entry.  No frame changes an entry it does not *)
(* name, the tables of another session, or anything outside the owning     *)
(* session.                                                                *)
(***************************************************************************)
TableAfter(table, side, a, p) ==
    [c \in Cids |->
        IF IsConnectionRequest(p)
        THEN (IF c = p.source_cid /\ side = (IF SentByHost(p) THEN "Host" ELSE "Peer")
              THEN <<"Pending", p.psm>> ELSE CidEntry(table, c))
        ELSE IF IsConnectionResponse(p)
        THEN (IF p.result = "Success" /\ PendingRequest(a, p)
                 /\ c = (IF side = "Host" THEN HostCid(p) ELSE PeerCid(p))
              THEN <<"Connected", IF side = "Host" THEN PeerCid(p) ELSE HostCid(p),
                     RequestedPsm(a, p)>>
              ELSE CidEntry(table, c))
        ELSE (IF c = (IF side = "Host" THEN HostCid(p) ELSE PeerCid(p))
              THEN <<"none">> ELSE CidEntry(table, c))]

C28_Step(r, r2, p) ==
    IsL2cap(p) =>
        LET a == OwningBefore(r, p.handle)
            b == OwningAfter(r2, p.handle)
        IN /\ \A c \in Cids :
                  /\ CidEntry(b.host_cids, c) = TableAfter(a.host_cids, "Host", a, p)[c]
                  /\ CidEntry(b.peer_cids, c) = TableAfter(a.peer_cids, "Peer", a, p)[c]
           /\ DOMAIN b.host_cids \cup DOMAIN b.peer_cids \subseteq Cids
           /\ IF IsConnectionResponse(p) /\ p.result = "Pending" THEN r2 = r
              ELSE Rule_connection_write(r2, p.handle, "BREDR", a)
                       = Rule_get_or_allocate_connection(r, p.handle, "BREDR")

C28_ChannelTables == [][C28_Step(Rule, Rule', pkt')]_vars

\* A request reused the host id of a connected channel: the host entry went
\* from Connected back to Pending while the peer entry of the old channel
\* still names it.
C28_Witness ==
    /\ pkt.kind = "AclTxConnectionRequest"
    /\ LET b == OwningAfter(Rule, pkt.handle)
       IN /\ b.host_cids[pkt.source_cid] = <<"Pending", pkt.psm>>
          /\ \E c \in DOMAIN b.peer_cids :
                 /\ b.peer_cids[c][1] = "Connected"
                 /\ b.peer_cids[c][2] = pkt.source_cid
                 /\ b.peer_cids[c][3] # pkt.psm

(***************************************************************************)
(* C29: report changes no engine state.  A call of report, in whatever     *)
(* state and however many calls came before it, leaves the device          *)
(* registry, the unknown-session bucket and the three cross-reference maps *)
(* as they are, and neither the clock nor the count of the packet stream   *)
(* moves: the packets after the call are processed from the state the      *)
(* packets before it left.                                                 *)
(***************************************************************************)
C29_Step ==
    /\ pkt'.kind = "Report" =>
           /\ Rule' = Rule
           /\ pkt'.ts = pkt.ts
           /\ npackets' = npackets

C29_ReportIsPure == [][C29_Step]_vars

\* A report written in the middle of a stream, with a device and a session
\* of the bucket to render, after which the stream goes on.
C29_Witness ==
    /\ pkt.kind = "Report"
    /\ Len(pkt.written) >= 3
    /\ DOMAIN devices # {}
    /\ DOMAIN unknown_connections # {}
    /\ npackets < MaxReportPackets

(***************************************************************************)
(* The five sort keys of a device block, as the claim lists them.          *)
(***************************************************************************)
HasSession(d) == d.acls["BREDR"] # <<>> \/ d.acls["LE"] # <<>>

TypeRank(t) == CASE t = "None" -> 0 [] t = "BREDR" -> 1 [] t = "LE" -> 2 [] t = "Dual" -> 3

\* Lexicographic order of two sequences of numbers.
LexLess(s, t) ==
    \E k \in 1..(Len(s) + 1) :
        /\ \A i \in 1..(k - 1) : i <= Len(t) /\ s[i] = t[i]
        /\ \/ k = Len(s) + 1 /\ Len(t) >= k
           \/ k <= Len(s) /\ k <= Len(t) /\ s[k] < t[k]

\* The octets of an address, the most significant first.
OctetsMsbFirst(a) == [k \in 1..6 |-> Address_to_bytes(a)[6 - k]]

\* The keys of a block: (no session, no name, type rank, name string,
\* address octets), each as a sequence of numbers.
BlockKeys(x) ==
    <<<<IF HasSession(x.device) THEN 0 ELSE 1>>,
      <<IF x.device.names # {} THEN 0 ELSE 1>>,
      <<TypeRank(x.device.address_type)>>,
      x.device_names,
      OctetsMsbFirst(x.device.address)>>

\* Block x sorts before block y: at the first key that differs, x is less.
KeyLess(x, y) ==
    LET kx == BlockKeys(x)
        ky == BlockKeys(y)
    IN \E k \in 1..5 :
           /\ \A i \in 1..(k - 1) : kx[i] = ky[i]
           /\ LexLess(kx[k], ky[k])

\* The block report writes for the device of address a when the name sets
\* iterate in the orders f.
BlockOf(a, f) ==
    [block |-> "device", address |-> a, device |-> devices[a],
     device_names |-> Device_print_names(devices[a].names, f[a])]

(***************************************************************************)
(* C30: a report that writes anything writes the title, then the block of  *)
(* the unknown sessions if there are any, then one block for every device; *)
(* a device block comes before another only if it is less by the five keys *)
(* (devices with a session first; named devices first; address type rank   *)
(* None < BREDR < LE < Dual; the name string, lexicographic; the address   *)
(* octets, most significant first), each key breaking the ties of the ones *)
(* before it.  The comparison of the sort is that order: it is total,      *)
(* antisymmetric and transitive on the devices, and it never returns Equal *)
(* for two distinct addresses.                                             *)
(***************************************************************************)
C30_ReportOrder ==
    /\ pkt.kind = "Report" =>
           LET w == pkt.written
               dev == {i \in 1..Len(w) : w[i].block = "device"}
               first == IF DOMAIN unknown_connections # {} THEN 3 ELSE 2
           IN /\ (w = <<>>) <=> (DOMAIN devices = {} /\ DOMAIN unknown_connections = {})
              /\ w # <<>> =>
                     /\ w[1].block = "title"
                     /\ DOMAIN unknown_connections # {} => w[2].block = "unknown"
                     /\ dev = first..Len(w)
                     /\ Len(w) - first + 1 = Cardinality(DOMAIN devices)
                     /\ {w[i].address : i \in dev} = DOMAIN devices
                     /\ \A i \in dev : w[i].device = devices[w[i].address]
                     /\ \A i, j \in dev : i < j => KeyLess(w[i], w[j])
    /\ pkt.kind = "Report" =>
           \A f \in NameOrders :
               LET cmp == [x, y \in DOMAIN devices |->
                              sort_addresses(devices[x], devices[y], f[x], f[y])]
               IN \A a, b \in DOMAIN devices :
                      /\ (cmp[a, b] = "Equal") <=> (a = b)
                      /\ (cmp[a, b] = "Less") <=> (cmp[b, a] = "Greater")
                      /\ (cmp[a, b] = "Less") <=> KeyLess(BlockOf(a, f), BlockOf(b, f))
                      /\ \A c \in DOMAIN devices :
                             cmp[a, b] = "Less" /\ cmp[b, c] = "Less" => cmp[a, c] = "Less"

\* A report of an unknown session and two devices that are equal in the
\* first four keys: the block of the unknown sessions comes first, and the
\* devices follow in the order of their addresses read from the most
\* significant octet, which is not the order of their least significant
\* octets.
C30_Witness ==
    /\ pkt.kind = "Report"
    /\ Len(pkt.written) = 4
    /\ pkt.written[2].block = "unknown"
    /\ \A k \in 1..4 : BlockKeys(pkt.written[3])[k] = BlockKeys(pkt.written[4])[k]
    /\ LexLess(OctetsMsbFirst(pkt.written[3].address), OctetsMsbFirst(pkt.written[4].address))
    /\ Address_to_bytes(pkt.written[3].address)[0] > Address_to_bytes(pkt.written[4].address)[0]

(***************************************************************************)
(* C31: the session count written in a device's block of a report is the   *)
(* number of link sessions recorded for the device, the length of its      *)
(* BR/EDR list plus the length of its LE list.                             *)
(***************************************************************************)
C31_SessionCount ==
    pkt.kind = "Report" =>
        \A i \in 1..Len(pkt.written) :
            pkt.written[i].block = "device" =>
                pkt.written[i].num_connections =
                    Len(pkt.written[i].device.acls["BREDR"])
                        + Len(pkt.written[i].device.acls["LE"])

(***************************************************************************)
(* The packets that can come next in a state, as far as the places that    *)
(* can panic read them: the kind, the address, the handle, the status, the *)
(* power-off reason and the result of a response.  An address (a handle)   *)
(* is a recorded one or the least unrecorded one, as in the actions.       *)
(***************************************************************************)
ScanPacket(kind, addr, handle, success, power_off, result) ==
    [kind |-> kind, addr |-> addr, handle |-> handle, success |-> success,
     power_off |-> power_off, ts |-> pkt.ts, result |-> result]

NextPacketsOn(as, hs) ==
    {ScanPacket(k, a, h, s, FALSE, "Success") :
        k \in {"ConnectionComplete", "SynchronousConnectionComplete",
               "LeConnectionComplete", "LeEnhancedConnectionComplete"},
        a \in as, h \in hs, s \in BOOLEAN}
    \cup {ScanPacket("DisconnectionComplete", 0, h, TRUE, FALSE, "Success") :
             h \in hs}
    \cup {ScanPacket("Disconnect", 0, h, TRUE, o, "Success") :
             h \in hs, o \in BOOLEAN}
    \cup {ScanPacket("Reset", 0, 0, TRUE, FALSE, "Success")}
    \cup {ScanPacket(k, 0, h, TRUE, FALSE, "Success") :
             k \in {"AclTxConnectionRequest", "AclRxConnectionRequest",
                    "AclTxDisconnectionResponse", "AclRxDisconnectionResponse"},
             h \in hs}
    \cup {ScanPacket(k, 0, h, TRUE, FALSE, res) :
             k \in {"AclTxConnectionResponse", "AclRxConnectionResponse"},
             h \in hs, res \in ConnectionResponseResults}

NextPackets == NextPacketsOn(PacketAddrs, PacketHandles)

(***************************************************************************)
(* C32: no packet sequence is fatal.  In every state a packet sequence     *)
(* leads to, process completes on whatever packet comes next - a teardown  *)
(* of an unknown handle, a channel frame on an unknown handle or on the    *)
(* handle of an LE link, a response that names channel ids never           *)
(* requested - without reaching the assertion 'device allocating unknown   *)
(* transport', an unwrap of None, a missing map key or a slice out of      *)
(* range; and the packet with advertising payloads that led to the state   *)
(* completed on every payload, malformed or not.                           *)
(***************************************************************************)
C32_NothingFatal ==
    /\ \A p \in NextPackets : ~Process_panics(Rule, p)
    /\ IsReport(pkt) => ~Process_panics(Rule, pkt)

\* A teardown of an unknown handle was filed in the bucket, and then a
\* success response naming channel ids that no request named arrived on the
\* handle of a device's LE link.
C32_Witness ==
    /\ pkt.kind = "AclRxConnectionResponse"
    /\ pkt.result = "Success"
    /\ pkt.handle \in DOMAIN handles
    /\ LET d == devices[handles[pkt.handle]]
       IN /\ Len(d.acls["LE"]) = 1
          /\ d.acls["LE"][1].handle = pkt.handle
          /\ d.acls["LE"][1].end_time = INVALID_TS
          /\ d.acls["LE"][1].host_cids = EmptyMap
          /\ d.acls["LE"][1].peer_cids = EmptyMap
    /\ \E h \in DOMAIN unknown_connections :
           /\ h # pkt.handle
           /\ unknown_connections[h].end_time # INVALID_TS

(***************************************************************************)
(* C33: the messages a dispatcher sends to the channel are f(cb) for the   *)
(* callbacks cb the closure was called with, in the order of the calls,    *)
(* whatever the order in which the spawned tasks run: the i-th message     *)
(* sent is f of the i-th callback.  No task panics at pop_front, and when  *)
(* every task is done and the receiver is alive every callback's message   *)
(* has been sent.                                                          *)
(***************************************************************************)
C33_SentInCallOrder ==
    /\ Len(dispatcher.sent) <= Len(dispatcher.called)
    /\ \A i \in 1..Len(dispatcher.sent) :
           dispatcher.sent[i] = Message_f(dispatcher.called[i])
    /\ \A t \in 1..Len(dispatcher.tasks) : dispatcher.tasks[t].pc # "panicked"
    /\ (/\ ~dispatcher.receiver_closed
        /\ \A t \in 1..Len(dispatcher.tasks) : dispatcher.tasks[t].pc = "done")
           => Len(dispatcher.sent) = Len(dispatcher.called)

\* The task spawned by the second call got the async mutex before the task
\* spawned by the first one, the two calls carried different callbacks, and
\* both messages were sent.
C33_Witness ==
    /\ Len(dispatcher.called) >= 2
    /\ dispatcher.called[1] # dispatcher.called[2]
    /\ Len(dispatcher.lock_order) >= 2
    /\ dispatcher.lock_order[1] = 2
    /\ dispatcher.lock_order[2] = 1
    /\ Len(dispatcher.sent) >= 2

(***************************************************************************)
(* The positions of a uuid list whose uuid the helper does not allow.      *)
(***************************************************************************)
BlockedPositions(helper, U) ==
    {i \in 1..Len(U) : ~BluetoothAdminPolicyHelper_is_service_allowed(helper, U[i])}

(***************************************************************************)
(* C34: with an empty allowlist the helper allows every service; right     *)
(* after set_allowed_services(S) the allowlist holds the services of S and *)
(* nothing of the allowlist before, so that for a non-empty S a service is *)
(* allowed iff it is in S; and get_blocked_services(U) is U without the    *)
(* allowed services: its k-th element is the k-th element of U that is not *)
(* allowed, duplicates included.                                           *)
(***************************************************************************)
C34_Allowlist ==
    LET helper == admin.admin_helper
    IN /\ helper.allowed_services = {} =>
              \A u \in Uuids : BluetoothAdminPolicyHelper_is_service_allowed(helper, u)
       /\ admin.call.kind = "set_allowed_services" =>
              /\ helper.allowed_services = HashSet_from(admin.call.services)
              /\ admin.call.services # <<>> =>
                     \A u \in Uuids :
                         BluetoothAdminPolicyHelper_is_service_allowed(helper, u)
                             <=> \E i \in 1..Len(admin.call.services) :
                                     admin.call.services[i] = u
       /\ \A U \in UuidLists :
              LET blocked == BluetoothAdminPolicyHelper_get_blocked_services(helper, U)
                  pos == BlockedPositions(helper, U)
              IN /\ Len(blocked) = Cardinality(pos)
                 /\ \A i \in pos :
                        blocked[Cardinality({j \in pos : j <= i})] = U[i]

\* A non-empty allowlist was replaced by one that leaves out a service of
\* the old one, and a list that names the dropped service twice around an
\* allowed one gets it back twice.
C34_Witness ==
    /\ admin.call.kind = "set_allowed_services"
    /\ admin.call.services # <<>>
    /\ \E u \in admin.call.before :
           /\ u \notin admin.admin_helper.allowed_services
           /\ BluetoothAdminPolicyHelper_get_blocked_services(admin.admin_helper, <<u, u>>)
                  = <<u, u>>
           /\ \E v \in admin.admin_helper.allowed_services :
                  BluetoothAdminPolicyHelper_get_blocked_services(admin.admin_helper, <<u, v>>)
                      = <<u>>

(***************************************************************************)
(* C40: as long as a callback was registered at every call of              *)
(* on_device_found, on_device_uuid_changed, on_device_cleared and          *)
(* set_allowed_services, the policy effect the cache holds for a device is *)
(* the effect last passed to on_device_policy_effect_changed for that      *)
(* device.                                                                 *)
(***************************************************************************)
C40_CacheIsNotified ==
    ~admin.unheard =>
        \A d \in DOMAIN admin.device_policy_affect_cache :
            /\ d \in DOMAIN admin.notified
            /\ admin.notified[d] = admin.device_policy_affect_cache[d]


(***************************************************************************)
(* C35: in every reachable state every handle of the handle-to-address map *)
(* maps to a device that exists and has a link session whose handle is     *)
(* that handle and whose end timestamp is still the sentinel.              *)
(***************************************************************************)
C35_MappedHandleIsOpen ==
    \A h \in DOMAIN handles :
        /\ handles[h] \in DOMAIN devices
        /\ \E s \in DeviceSessions(Rule) :
               /\ s[1] = handles[h]
               /\ AclAt(Rule, s).handle = h
               /\ IsOpen(AclAt(Rule, s))

\* A teardown ended the last BR/EDR session of a device that has an earlier
\* session still open: the handle of the ended one left the map, the handle
\* of the open one is still in it.
C35_Witness ==
    /\ pkt.kind = "DisconnectionComplete"
    /\ pkt.handle \notin DOMAIN handles
    /\ \E h \in DOMAIN handles :
           LET acls == devices[handles[h]].acls["BREDR"]
           IN /\ Len(acls) = 2
              /\ acls[1].handle = h /\ IsOpen(acls[1])
              /\ acls[2].handle = pkt.handle /\ acls[2].end_time = pkt.ts


(***************************************************************************)
(* C36: in every reachable state no link session whose end timestamp is    *)
(* set, in a device or in the unknown-session bucket, has an active        *)
(* profile.                                                                *)
(***************************************************************************)
C36_EndedHasNoActiveProfile ==
    \A acl \in AllAcls(Rule) : ~IsOpen(acl) => DOMAIN acl.active_profiles = {}

\* The same for the sessions of devices only.
C36_DeviceSessionsOnly ==
    \A s \in DeviceSessions(Rule) :
        ~IsOpen(AclAt(Rule, s)) => DOMAIN AclAt(Rule, s).active_profiles = {}


(***************************************************************************)
(* C37: in every reachable state every profile record in the ended-profile *)
(* list of a link session, in a device or in the unknown-session bucket,   *)
(* has its end timestamp set.                                              *)
(***************************************************************************)
C37_EndedProfilesHaveEnd ==
    \A acl \in AllAcls(Rule) :
        \A i \in 1..Len(acl.inactive_profiles) :
            acl.inactive_profiles[i].end_time # INVALID_TS


(***************************************************************************)
(* C38: a channel-control frame (connection request, connection response,  *)
(* disconnection response) carried on handle h modifies only the link      *)
(* session whose handle is h: every session of a device and every entry of *)
(* the unknown-session bucket with another handle is left as it was, and   *)
(* no session is appended to the BR/EDR list of a device.                  *)
(***************************************************************************)
\* The sessions with another handle are as before.
C38_OthersUntouched(r, r2, p) ==
    /\ \A s \in DeviceSessions(r) :
           AclAt(r, s).handle # p.handle =>
               s \in DeviceSessions(r2) /\ AclAt(r2, s) = AclAt(r, s)
    /\ \A h \in DOMAIN r.unknown_connections :
           h # p.handle =>
               /\ h \in DOMAIN r2.unknown_connections
               /\ r2.unknown_connections[h] = r.unknown_connections[h]

\* No device gets a BR/EDR session.
C38_NoneAppended(r, r2, p) ==
    /\ DOMAIN r2.devices = DOMAIN r.devices
    /\ \A a \in DOMAIN r.devices :
           Len(r2.devices[a].acls["BREDR"]) = Len(r.devices[a].acls["BREDR"])

C38_Step(r, r2, p) ==
    IsL2cap(p) => C38_OthersUntouched(r, r2, p) /\ C38_NoneAppended(r, r2, p)

C38_FrameTouchesOwnSession == [][C38_Step(Rule, Rule', pkt')]_vars

\* The two halves, each alone.
C38_OtherSessionsUntouched ==
    [][IsL2cap(pkt') => C38_OthersUntouched(Rule, Rule', pkt')]_vars

C38_NoSessionAppended ==
    [][IsL2cap(pkt') => C38_NoneAppended(Rule, Rule', pkt')]_vars


(***************************************************************************)
(* C39, as stated: the first DisconnectionComplete for a handle after a    *)
(* power-off Disconnect command for it, with no connection-complete event  *)
(* for the handle and no Reset in between, changes no device, session,     *)
(* profile or unknown-bucket entry and no handle mapping; it only removes  *)
(* the pending-teardown entry of the handle.                               *)
(***************************************************************************)
C39_OnlyPendingRemoved(r, r2, p) ==
    r2 = [r EXCEPT !.pending_disconnections = MapRemove(@, p.handle)]

C39_Step_Original(r, r2, p, ph) ==
    p.kind = "DisconnectionComplete" /\ ph[p.handle] # "none" =>
        C39_OnlyPendingRemoved(r, r2, p)

C39_Original == [][C39_Step_Original(Rule, Rule', pkt', power_off_hist)]_vars

(***************************************************************************)
(* C39, amended: that holds when moreover no Disconnect command with       *)
(* another reason came for the handle in between: the pending-teardown     *)
(* entry of the handle is then still the power-off one, and a              *)
(* DisconnectionComplete that finds the power-off entry only removes it.   *)
(***************************************************************************)
C39_Step(r, r2, p, ph) ==
    /\ \A h \in Handles :
           ph[h] = "power_off" =>
               h \in DOMAIN r.pending_disconnections /\ r.pending_disconnections[h]
    /\ p.kind = "DisconnectionComplete" /\ ph[p.handle] = "power_off" =>
           p.pending_before = "power_off"
    /\ p.kind = "DisconnectionComplete" /\ p.pending_before = "power_off" =>
           C39_OnlyPendingRemoved(r, r2, p)

C39_PowerOffTeardownOnce == [][C39_Step(Rule, Rule', pkt', power_off_hist)]_vars

\* A session opened for the handle, the power-off Disconnect ended it at
\* its own timestamp, another packet came, and the DisconnectionComplete
\* for the handle has just been processed at a later timestamp: the session
\* still ends at the command's timestamp, nothing is in the bucket and the
\* pending entry is gone.
C39_Witness ==
    /\ pkt.kind = "DisconnectionComplete"
    /\ pkt.pending_before = "power_off"
    /\ npackets = 4
    /\ pkt.ts = 1
    /\ pkt.handle \notin DOMAIN pending_disconnections
    /\ DOMAIN unknown_connections = {}
    /\ \E s \in DeviceSessions(Rule) :
           /\ AclAt(Rule, s).handle = pkt.handle
           /\ AclAt(Rule, s).start_time = 0
           /\ AclAt(Rule, s).end_time = 0
           /\ AclAt(Rule, s).end_initiator = "Host"

====
